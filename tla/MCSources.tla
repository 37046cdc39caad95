----------------------------- MODULE MCSources ------------------------------
(* The file-system watcher, the docker watcher, the pull-request monitor,  *)
(* and the socket through which the daemon serves one of them.  They meet  *)
(* in the table only, so each behaviour runs one and the others stand      *)
(* still; Parts says which ones a run explores.                            *)
(* Three saves and one repeated notification: a save can come in at every  *)
(* point of a flush.  Messages over two seconds share the second of the    *)
(* cursor; the exponent limit is reached after a few drops.  A frame can   *)
(* be longer than the kernel's buffer, and the goodbye just fits it.       *)
EXTENDS FsDebounce, DockerWatch, PrMonitor, SubscriberTx

CONSTANTS Parts, a, b, c, sha1, sha2, job1

VARIABLE part

fsVars == <<observing, stopEvt, flusher, main, buffers>>
mcVars == <<part, fsVars, dockerVars, monitorVars, txVars>>

MCInit ==
  /\ part \in Parts
  /\ Init /\ DockerInit /\ MonitorInit /\ TxInit
  /\ part # "docker" => ~until /\ cursor = 1

MCNext ==
  \/ part = "fs" /\ Next /\ UNCHANGED <<part, dockerVars, monitorVars, txVars>>
  \/ part = "docker" /\ DockerNext /\ UNCHANGED <<part, fsVars, monitorVars, txVars>>
  \/ part = "monitor" /\ MonitorNext /\ UNCHANGED <<part, fsVars, dockerVars, txVars>>
  \/ part = "tx" /\ TxNext /\ UNCHANGED <<part, fsVars, dockerVars, monitorVars>>

(* The fairness of the two watchers and of the socket, each for its part.  *)
MCSpec ==
  /\ MCInit /\ [][MCNext]_mcVars
  /\ WF_fsVars(part = "fs" /\ FlusherNext) /\ WF_fsVars(part = "fs" /\ MainNext)
  /\ WF_dockerVars(part = "docker" /\ WatchNext)
  /\ WF_dockerVars(part = "docker" /\ StopperNext)
  /\ SF_txVars(part = "tx" /\ DrainBegins) /\ WF_txVars(part = "tx" /\ busy /\ DrainNext)
  /\ WF_txVars(part = "tx" /\ PeerReads)

=============================================================================
