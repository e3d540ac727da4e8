-------------------------- MODULE DurabilityProofs --------------------------
(***************************************************************************)
(* Proofs about Durability, for every set of modes and any number of       *)
(* transactions.  What survives a power loss rests on an order of five     *)
(* positions in two files; the order is kept only because the checkpoint   *)
(* lock is with at most one connection and a checkpoint knows the end of   *)
(* the WAL, so these are part of the inductive invariant.                  *)
(***************************************************************************)
EXTENDS Durability, TLAPS

-----------------------------------------------------------------------------
(* The inductive invariant.                                                *)

\* The checkpoint lock is with the connection that says so, and only with it.
LockHeld ==
    /\ ckptBy = "main" <=> pc \in {"fsync", "auto", "closing"}
    /\ ckptBy = "thread" <=> thread \in {"checkpointing", "closing"}

\* How far the two threads have come with the end of a session.
Ending ==
    /\ pc \in {"stopping", "closing", "closed", "dropped"} => stop
    /\ thread = "closing" => pc = "dropped"
    /\ pc = "dropped" => thread \in {"waiting", "checkpointing", "closing"}
    /\ pc \in {"closing", "closed"} => thread \in {"none", "starting", "done"}

\* What a checkpoint knows of the WAL; nothing is appended behind the back of
\* one that the session itself runs or that closes the last connection.
Seen ==
    /\ upto <= last
    /\ pc \in {"fsync", "auto", "closing"} \/ thread = "closing" => upto = last
    /\ copying => backfilled < upto

\* The order of the positions, unless some session has omitted syncs: pages go
\* into the database only from a synced WAL, and the WAL starts over, or goes,
\* only behind a synced database.
Ordered ==
    ~risky =>
        /\ mode # "off" /\ ~torn
        /\ walBase <= dbSynced /\ dbSynced <= walSynced /\ copied <= walSynced
        /\ copying => upto <= walSynced
        /\ backfilled = last /\ walBase < last => dbSynced = last

IInv ==
    /\ TypeOK /\ LockHeld /\ Ending /\ Seen /\ Ordered
    /\ FsyncDurableAlone /\ ClosedDurable

LEMMA InitInv == Init => IInv
<1> SUFFICES ASSUME Init PROVE IInv
  OBVIOUS
<1>1. ControlTypes /\ Positions
  BY MaxTxAssumption DEF Init, Starts, ControlTypes, Positions, Txs
<1>2. FlagTypes
  BY DEF Init, FlagTypes
<1>3. LockHeld /\ Ending /\ Seen /\ Ordered
  BY DEF Init, Starts, LockHeld, Ending, Seen, Ordered
<1>4. FsyncDurableAlone /\ ClosedDurable
  BY DEF Init, FsyncDurableAlone, ClosedDurable
<1>. QED  BY <1>1, <1>2, <1>3, <1>4 DEF IInv, TypeOK

LEMMA ReopenStep ==
    ASSUME IInv, Reopen PROVE IInv'
<1>1. ControlTypes'
  BY DEF IInv, TypeOK, ControlTypes, Reopen, Starts, files, ckpt
<1>2. FlagTypes'
  BY DEF IInv, TypeOK, FlagTypes, Reopen, Starts, files, ckpt
<1>3. Positions'
  BY MaxTxAssumption DEF IInv, TypeOK, Positions, Txs, Reopen, Starts,
     files, ckpt
<1>4. LockHeld' /\ Ending'
  BY DEF IInv, LockHeld, Ending, Reopen, Starts, files, ckpt
<1>5. Seen'
  BY DEF IInv, Seen, Reopen, Starts, files, ckpt
<1>6. Ordered'
  BY DEF IInv, Ordered, Reopen, Starts, files, ckpt
<1>7. FsyncDurableAlone' /\ ClosedDurable'
  BY MaxTxAssumption DEF IInv, TypeOK, FsyncDurableAlone, ClosedDurable,
     Positions, Txs, Reopen, Starts, files, ckpt
<1>. QED  BY <1>1, <1>2, <1>3, <1>4, <1>5, <1>6, <1>7 DEF IInv, TypeOK

LEMMA KillStep ==
    ASSUME IInv, Kill PROVE IInv'
<1>1. ControlTypes'
  BY DEF IInv, TypeOK, ControlTypes, Kill, ProcessGone, files
<1>2. FlagTypes'
  BY DEF IInv, TypeOK, FlagTypes, Kill, ProcessGone, files
<1>3. Positions'
  BY MaxTxAssumption DEF IInv, TypeOK, Positions, Txs, Kill, ProcessGone,
     files
<1>4. LockHeld' /\ Ending'
  BY DEF IInv, LockHeld, Ending, Kill, ProcessGone, files
<1>5. Seen'
  BY MaxTxAssumption DEF IInv, TypeOK, Seen, Positions, Txs, Kill,
     ProcessGone, files
<1>6. Ordered'
  BY MaxTxAssumption DEF IInv, TypeOK, Ordered, Positions, Txs, Kill,
     ProcessGone, files
<1>7. FsyncDurableAlone' /\ ClosedDurable'
  BY MaxTxAssumption DEF IInv, TypeOK, FsyncDurableAlone, ClosedDurable,
     Positions, Txs, Kill, ProcessGone, files
<1>. QED  BY <1>1, <1>2, <1>3, <1>4, <1>5, <1>6, <1>7 DEF IInv, TypeOK

LEMMA PowerLossStep ==
    ASSUME IInv, PowerLoss PROVE IInv'
<1>1. ControlTypes'
  BY DEF IInv, TypeOK, ControlTypes, PowerLoss, ProcessGone, Tears
<1>2. FlagTypes'
  BY DEF IInv, TypeOK, FlagTypes, PowerLoss, ProcessGone, Tears
<1>3. Positions'
  BY MaxTxAssumption DEF IInv, TypeOK, Positions, Txs, PowerLoss,
     ProcessGone, Tears
<1>4. LockHeld' /\ Ending'
  BY DEF IInv, LockHeld, Ending, PowerLoss, ProcessGone, Tears
<1>5. Seen'
  BY MaxTxAssumption DEF IInv, TypeOK, Seen, Positions, Txs, PowerLoss,
     ProcessGone, Tears
<1>6. Ordered'
  BY MaxTxAssumption DEF IInv, TypeOK, Ordered, Positions, Txs, PowerLoss,
     ProcessGone, Tears
<1>7. FsyncDurableAlone' /\ ClosedDurable'
  BY MaxTxAssumption DEF IInv, TypeOK, FsyncDurableAlone, ClosedDurable,
     Positions, Txs, PowerLoss, ProcessGone, Tears
<1>. QED  BY <1>1, <1>2, <1>3, <1>4, <1>5, <1>6, <1>7 DEF IInv, TypeOK

LEMMA CommitStep ==
    ASSUME IInv, NEW restart \in BOOLEAN, Commit(restart) PROVE IInv'
<1>1. ControlTypes'
  BY DEF IInv, TypeOK, ControlTypes, Commit, WalRestarts, control
<1>2. FlagTypes'
  BY DEF IInv, TypeOK, FlagTypes, Commit, control
<1>3. Positions'
  BY MaxTxAssumption DEF IInv, TypeOK, Positions, Txs, Commit, WalRestarts,
     control
<1>4. LockHeld' /\ Ending'
  BY DEF IInv, LockHeld, Ending, Commit, WalRestarts, control
<1>5. Seen'
  BY MaxTxAssumption DEF IInv, TypeOK, ControlTypes, Positions, Txs,
     LockHeld, Ending, Seen, Commit, WalRestarts, control
<1>6. Ordered'
  BY MaxTxAssumption DEF IInv, TypeOK, Ordered, Positions, Txs, Commit,
     WalRestarts, control
<1>7. FsyncDurableAlone' /\ ClosedDurable'
  BY MaxTxAssumption DEF IInv, TypeOK, FsyncDurableAlone, ClosedDurable,
     Positions, Txs, Commit, WalRestarts, control
<1>. QED  BY <1>1, <1>2, <1>3, <1>4, <1>5, <1>6, <1>7 DEF IInv, TypeOK

LEMMA AutoCheckpointStep ==
    ASSUME IInv, AutoCheckpoint PROVE IInv'
<1>1. ControlTypes'
  BY DEF IInv, TypeOK, ControlTypes, AutoCheckpoint, CkptLock, files
<1>2. FlagTypes'
  BY DEF IInv, TypeOK, FlagTypes, AutoCheckpoint, CkptLock, files
<1>3. Positions'
  BY DEF IInv, TypeOK, Positions, AutoCheckpoint, CkptLock, files
<1>4. LockHeld' /\ Ending'
  BY DEF IInv, LockHeld, Ending, AutoCheckpoint, CkptLock, files
<1>5. Seen'
  BY MaxTxAssumption DEF IInv, TypeOK, Seen, Positions, Txs, AutoCheckpoint,
     CkptLock, files
<1>6. Ordered'
  BY DEF IInv, Ordered, AutoCheckpoint, CkptLock, files
<1>7. FsyncDurableAlone' /\ ClosedDurable'
  BY DEF IInv, FsyncDurableAlone, ClosedDurable, AutoCheckpoint, CkptLock,
     files
<1>. QED  BY <1>1, <1>2, <1>3, <1>4, <1>5, <1>6, <1>7 DEF IInv, TypeOK

LEMMA FsyncStep ==
    ASSUME IInv, Fsync PROVE IInv'
<1>1. ControlTypes'
  BY DEF IInv, TypeOK, ControlTypes, Fsync, CkptLock, files
<1>2. FlagTypes'
  BY DEF IInv, TypeOK, FlagTypes, Fsync, CkptLock, files
<1>3. Positions'
  BY DEF IInv, TypeOK, Positions, Fsync, CkptLock, files
<1>4. LockHeld' /\ Ending'
  BY DEF IInv, LockHeld, Ending, Fsync, CkptLock, files
<1>5. Seen'
  BY MaxTxAssumption DEF IInv, TypeOK, Seen, Positions, Txs, Fsync,
     CkptLock, files
<1>6. Ordered'
  BY DEF IInv, Ordered, Fsync, CkptLock, files
<1>7. FsyncDurableAlone' /\ ClosedDurable'
  BY DEF IInv, FsyncDurableAlone, ClosedDurable, Fsync, CkptLock, files
<1>. QED  BY <1>1, <1>2, <1>3, <1>4, <1>5, <1>6, <1>7 DEF IInv, TypeOK

LEMMA FsyncSkippedStep ==
    ASSUME IInv, FsyncSkipped PROVE IInv'
<1>1. ControlTypes'
  BY DEF IInv, TypeOK, ControlTypes, FsyncSkipped, files, ckpt
<1>2. FlagTypes'
  BY DEF IInv, TypeOK, FlagTypes, FsyncSkipped, files, ckpt
<1>3. Positions'
  BY MaxTxAssumption DEF IInv, TypeOK, Positions, Txs, FsyncSkipped, files,
     ckpt
<1>4. LockHeld' /\ Ending'
  BY DEF IInv, LockHeld, Ending, FsyncSkipped, files, ckpt
<1>5. Seen'
  BY DEF IInv, Seen, FsyncSkipped, files, ckpt
<1>6. Ordered'
  BY DEF IInv, Ordered, FsyncSkipped, files, ckpt
<1>7. FsyncDurableAlone' /\ ClosedDurable'
  BY MaxTxAssumption DEF IInv, TypeOK, FsyncDurableAlone, ClosedDurable,
     ControlTypes, Positions, Txs, LockHeld, Seen, Ending, Ordered,
     FsyncSkipped, files, ckpt
<1>. QED  BY <1>1, <1>2, <1>3, <1>4, <1>5, <1>6, <1>7 DEF IInv, TypeOK

LEMMA CkptSyncWalStep ==
    ASSUME IInv, CkptSyncWal PROVE IInv'
<1>1. ControlTypes'
  BY DEF IInv, TypeOK, ControlTypes, CkptSyncWal, Syncs, control
<1>2. FlagTypes'
  BY DEF IInv, TypeOK, FlagTypes, CkptSyncWal, control
<1>3. Positions'
  BY MaxTxAssumption DEF IInv, TypeOK, Positions, Txs, Seen, CkptSyncWal,
     Syncs, control
<1>4. LockHeld' /\ Ending'
  BY DEF IInv, LockHeld, Ending, CkptSyncWal, Syncs, control
<1>5. Seen'
  BY DEF IInv, Seen, CkptSyncWal, Syncs, control
<1>6. Ordered'
  BY MaxTxAssumption DEF IInv, TypeOK, Ordered, Seen, Positions, Txs,
     CkptSyncWal, Syncs, control
<1>7. FsyncDurableAlone' /\ ClosedDurable'
  BY MaxTxAssumption DEF IInv, TypeOK, FsyncDurableAlone, ClosedDurable,
     Positions, Txs, CkptSyncWal, Syncs, control
<1>. QED  BY <1>1, <1>2, <1>3, <1>4, <1>5, <1>6, <1>7 DEF IInv, TypeOK

LEMMA MainCkptEndStep ==
    ASSUME IInv, MainCkptEnd PROVE IInv'
<1>1. ControlTypes'
  BY DEF IInv, TypeOK, ControlTypes, MainCkptEnd, CkptDone, DbSyncedAfter,
     Syncs
<1>2. FlagTypes'
  BY DEF IInv, TypeOK, FlagTypes, MainCkptEnd, CkptDone
<1>3. Positions'
  BY MaxTxAssumption DEF IInv, TypeOK, Positions, Txs, Seen, MainCkptEnd,
     CkptDone, DbSyncedAfter, Syncs
<1>4. LockHeld' /\ Ending'
  BY DEF IInv, LockHeld, Ending, MainCkptEnd, CkptDone, DbSyncedAfter, Syncs
<1>5. Seen'
  BY MaxTxAssumption DEF IInv, TypeOK, Seen, LockHeld, Positions, Txs,
     MainCkptEnd, CkptDone, DbSyncedAfter, Syncs
<1>6. Ordered'
  BY MaxTxAssumption DEF IInv, TypeOK, Ordered, Positions, Txs, MainCkptEnd,
     CkptDone, DbSyncedAfter, Syncs
<1>7. FsyncDurableAlone' /\ ClosedDurable'
  BY MaxTxAssumption DEF IInv, TypeOK, FsyncDurableAlone, ClosedDurable,
     Ordered, Seen, Positions, Txs, MainCkptEnd, CkptDone, DbSyncedAfter,
     Syncs
<1>. QED  BY <1>1, <1>2, <1>3, <1>4, <1>5, <1>6, <1>7 DEF IInv, TypeOK

LEMMA ThreadCkptEndStep ==
    ASSUME IInv, ThreadCkptEnd PROVE IInv'
<1>1. ControlTypes'
  BY DEF IInv, TypeOK, ControlTypes, ThreadCkptEnd, CkptDone, DbSyncedAfter,
     Syncs
<1>2. FlagTypes'
  BY DEF IInv, TypeOK, FlagTypes, ThreadCkptEnd, CkptDone
<1>3. Positions'
  BY MaxTxAssumption DEF IInv, TypeOK, Positions, Txs, Seen, ThreadCkptEnd,
     CkptDone, DbSyncedAfter, Syncs
<1>4. LockHeld' /\ Ending'
  BY DEF IInv, LockHeld, Ending, ThreadCkptEnd, CkptDone, DbSyncedAfter,
     Syncs
<1>5. Seen'
  BY MaxTxAssumption DEF IInv, TypeOK, Seen, LockHeld, Positions, Txs,
     ThreadCkptEnd, CkptDone, DbSyncedAfter, Syncs
<1>6. Ordered'
  BY MaxTxAssumption DEF IInv, TypeOK, Ordered, Positions, Txs,
     ThreadCkptEnd, CkptDone, DbSyncedAfter, Syncs
<1>7. FsyncDurableAlone' /\ ClosedDurable'
  BY DEF IInv, FsyncDurableAlone, ClosedDurable, ThreadCkptEnd, CkptDone,
     DbSyncedAfter, Syncs
<1>. QED  BY <1>1, <1>2, <1>3, <1>4, <1>5, <1>6, <1>7 DEF IInv, TypeOK

LEMMA FinalCkptEndStep ==
    ASSUME IInv, FinalCkptEnd PROVE IInv'
<1>1. ControlTypes'
  BY DEF IInv, TypeOK, ControlTypes, FinalCkptEnd, CkptDone, DbSyncedAfter,
     Syncs
<1>2. FlagTypes'
  BY DEF IInv, TypeOK, FlagTypes, FinalCkptEnd, CkptDone
<1>3. Positions'
  BY MaxTxAssumption DEF IInv, TypeOK, Positions, Txs, Seen, FinalCkptEnd,
     CkptDone, DbSyncedAfter, Syncs
<1>4. LockHeld' /\ Ending'
  BY DEF IInv, LockHeld, Ending, FinalCkptEnd, CkptDone, DbSyncedAfter,
     Syncs
<1>5. Seen'
  BY MaxTxAssumption DEF IInv, TypeOK, Seen, Positions, Txs, FinalCkptEnd,
     CkptDone, DbSyncedAfter, Syncs
<1>6. Ordered'
  BY MaxTxAssumption DEF IInv, TypeOK, Ordered, Seen, Positions, Txs,
     FinalCkptEnd, CkptDone, DbSyncedAfter, Syncs
<1>7. FsyncDurableAlone' /\ ClosedDurable'
  BY MaxTxAssumption DEF IInv, TypeOK, FsyncDurableAlone, ClosedDurable,
     Ordered, Seen, Positions, Txs, FinalCkptEnd, CkptDone, DbSyncedAfter,
     Syncs
<1>. QED  BY <1>1, <1>2, <1>3, <1>4, <1>5, <1>6, <1>7 DEF IInv, TypeOK

LEMMA ThreadOpenFailsStep ==
    ASSUME IInv, ThreadOpenFails PROVE IInv'
<1>1. ControlTypes'
  BY DEF IInv, TypeOK, ControlTypes, ThreadOpenFails, files, ckpt
<1>2. FlagTypes'
  BY DEF IInv, TypeOK, FlagTypes, ThreadOpenFails, files, ckpt
<1>3. Positions'
  BY DEF IInv, TypeOK, Positions, ThreadOpenFails, files, ckpt
<1>4. LockHeld' /\ Ending'
  BY DEF IInv, LockHeld, Ending, ThreadOpenFails, files, ckpt
<1>5. Seen'
  BY DEF IInv, Seen, ThreadOpenFails, files, ckpt
<1>6. Ordered'
  BY DEF IInv, Ordered, ThreadOpenFails, files, ckpt
<1>7. FsyncDurableAlone' /\ ClosedDurable'
  BY DEF IInv, FsyncDurableAlone, ClosedDurable, ThreadOpenFails, files,
     ckpt
<1>. QED  BY <1>1, <1>2, <1>3, <1>4, <1>5, <1>6, <1>7 DEF IInv, TypeOK

LEMMA ThreadTimeoutStep ==
    ASSUME IInv, ThreadTimeout PROVE IInv'
<1>1. ControlTypes'
  BY DEF IInv, TypeOK, ControlTypes, ThreadTimeout, CkptLock, files, ckpt
<1>2. FlagTypes'
  BY DEF IInv, TypeOK, FlagTypes, ThreadTimeout, CkptLock, files, ckpt
<1>3. Positions'
  BY DEF IInv, TypeOK, Positions, ThreadTimeout, CkptLock, files, ckpt
<1>4. LockHeld' /\ Ending'
  BY DEF IInv, LockHeld, Ending, ThreadTimeout, CkptLock, files, ckpt
<1>5. Seen'
  BY MaxTxAssumption DEF IInv, TypeOK, Seen, Positions, Txs, ThreadTimeout,
     CkptLock, files, ckpt
<1>6. Ordered'
  BY DEF IInv, Ordered, ThreadTimeout, CkptLock, files, ckpt
<1>7. FsyncDurableAlone' /\ ClosedDurable'
  BY DEF IInv, FsyncDurableAlone, ClosedDurable, ThreadTimeout, CkptLock,
     files, ckpt
<1>. QED  BY <1>1, <1>2, <1>3, <1>4, <1>5, <1>6, <1>7 DEF IInv, TypeOK

LEMMA ThreadStopStep ==
    ASSUME IInv, ThreadStop PROVE IInv'
<1>1. ControlTypes'
  BY DEF IInv, TypeOK, ControlTypes, ThreadStop, CkptLock, files, ckpt
<1>2. FlagTypes'
  BY DEF IInv, TypeOK, FlagTypes, ThreadStop, CkptLock, files, ckpt
<1>3. Positions'
  BY DEF IInv, TypeOK, Positions, ThreadStop, CkptLock, files, ckpt
<1>4. LockHeld' /\ Ending'
  BY DEF IInv, LockHeld, Ending, ThreadStop, CkptLock, files, ckpt
<1>5. Seen'
  BY MaxTxAssumption DEF IInv, TypeOK, Seen, Positions, Txs, ThreadStop,
     CkptLock, files, ckpt
<1>6. Ordered'
  BY DEF IInv, Ordered, ThreadStop, CkptLock, files, ckpt
<1>7. FsyncDurableAlone' /\ ClosedDurable'
  BY DEF IInv, FsyncDurableAlone, ClosedDurable, ThreadStop, CkptLock,
     files, ckpt
<1>. QED  BY <1>1, <1>2, <1>3, <1>4, <1>5, <1>6, <1>7 DEF IInv, TypeOK

LEMMA StopStep ==
    ASSUME IInv, Stop PROVE IInv'
<1>1. ControlTypes'
  BY DEF IInv, TypeOK, ControlTypes, Stop, files, ckpt
<1>2. FlagTypes'
  BY DEF IInv, TypeOK, FlagTypes, Stop, files, ckpt
<1>3. Positions'
  BY DEF IInv, TypeOK, Positions, Stop, files, ckpt
<1>4. LockHeld' /\ Ending'
  BY DEF IInv, LockHeld, Ending, Stop, files, ckpt
<1>5. Seen'
  BY DEF IInv, Seen, Stop, files, ckpt
<1>6. Ordered'
  BY DEF IInv, Ordered, Stop, files, ckpt
<1>7. FsyncDurableAlone' /\ ClosedDurable'
  BY DEF IInv, FsyncDurableAlone, ClosedDurable, Stop, files, ckpt
<1>. QED  BY <1>1, <1>2, <1>3, <1>4, <1>5, <1>6, <1>7 DEF IInv, TypeOK

LEMMA CloseStep ==
    ASSUME IInv, Close PROVE IInv'
<1>1. ControlTypes'
  BY DEF IInv, TypeOK, ControlTypes, Close, CloseLast, CkptLock, files
<1>2. FlagTypes'
  BY DEF IInv, TypeOK, FlagTypes, Close, CloseLast, CkptLock, files
<1>3. Positions'
  BY MaxTxAssumption DEF IInv, TypeOK, Positions, Txs, Close, CloseLast,
     CkptLock, files
<1>4. LockHeld' /\ Ending'
  BY DEF IInv, LockHeld, Ending, Close, CloseLast, CkptLock, files
<1>5. Seen'
  BY MaxTxAssumption DEF IInv, TypeOK, Seen, Positions, Txs, Close,
     CloseLast, CkptLock, files
<1>6. Ordered'
  BY MaxTxAssumption DEF IInv, TypeOK, Ordered, Positions, Txs, Close,
     CloseLast, CkptLock, files
<1>7. FsyncDurableAlone' /\ ClosedDurable'
  BY DEF IInv, FsyncDurableAlone, ClosedDurable, Close, CloseLast, CkptLock,
     files
<1>. QED  BY <1>1, <1>2, <1>3, <1>4, <1>5, <1>6, <1>7 DEF IInv, TypeOK

LEMMA DropStep ==
    ASSUME IInv, Drop PROVE IInv'
<1>1. ControlTypes'
  BY DEF IInv, TypeOK, ControlTypes, Drop, CloseLast, CkptLock, files, ckpt
<1>2. FlagTypes'
  BY DEF IInv, TypeOK, FlagTypes, Drop, CloseLast, CkptLock, files, ckpt
<1>3. Positions'
  BY MaxTxAssumption DEF IInv, TypeOK, Positions, Txs, Drop, CloseLast,
     CkptLock, files, ckpt
<1>4. LockHeld' /\ Ending'
  BY DEF IInv, TypeOK, ControlTypes, LockHeld, Ending, Drop, CloseLast,
     CkptLock, files, ckpt
<1>5. Seen'
  BY MaxTxAssumption DEF IInv, TypeOK, Seen, Positions, Txs, Drop,
     CloseLast, CkptLock, files, ckpt
<1>6. Ordered'
  BY MaxTxAssumption DEF IInv, TypeOK, Ordered, Positions, Txs, Drop,
     CloseLast, CkptLock, files, ckpt
<1>7. FsyncDurableAlone' /\ ClosedDurable'
  BY DEF IInv, FsyncDurableAlone, ClosedDurable, Drop, CloseLast, CkptLock,
     files, ckpt
<1>. QED  BY <1>1, <1>2, <1>3, <1>4, <1>5, <1>6, <1>7 DEF IInv, TypeOK

-----------------------------------------------------------------------------
(* The theorems.                                                           *)

LEMMA NextInv == IInv /\ [Next]_vars => IInv'
<1> SUFFICES ASSUME IInv, [Next]_vars PROVE IInv'
  OBVIOUS
<1>1. CASE UNCHANGED vars
  BY <1>1 DEF vars, IInv, TypeOK, ControlTypes, FlagTypes, Positions, LockHeld, Ending,
     Seen, Ordered, FsyncDurableAlone, ClosedDurable
<1>2. CASE Next
  BY <1>2, ReopenStep, KillStep, PowerLossStep, CommitStep, AutoCheckpointStep,
     FsyncStep, FsyncSkippedStep, CkptSyncWalStep, MainCkptEndStep, ThreadCkptEndStep,
     FinalCkptEndStep, ThreadOpenFailsStep, ThreadTimeoutStep, ThreadStopStep,
     StopStep, CloseStep, DropStep DEF Next
<1>. QED  BY <1>1, <1>2

\* Every reachable state satisfies the inductive invariant: the lock, the two
\* threads' places and the positions in both files stay in step.
THEOREM Invariant == Spec => []IInv
<1>. QED  BY InitInv, NextInv, PTL DEF Spec

\* Positions stay within the two files: the WAL is never copied or synced past
\* its end, nor does it start over behind what was copied.
THEOREM TypeCorrect == Spec => []TypeOK
<1>1. IInv => TypeOK
  BY DEF IInv
<1>. QED  BY <1>1, Invariant, PTL

\* Without sync_mode off no power loss leaves part of a transaction.
THEOREM NotTorn == Spec => []NeverTorn
<1>1. IInv => NeverTorn
  BY DEF IInv, Ordered, NeverTorn
<1>. QED  BY <1>1, Invariant, PTL

\* Without a checkpoint thread, what fsync acknowledged survives power loss.
THEOREM FsyncAlone == Spec => []FsyncDurableAlone
<1>1. IInv => FsyncDurableAlone
  BY DEF IInv
<1>. QED  BY <1>1, Invariant, PTL

\* After close, or a drop and the end of the thread, every commit is on disk.
THEOREM CloseDurable == Spec => []ClosedDurable
<1>1. IInv => ClosedDurable
  BY DEF IInv
<1>. QED  BY <1>1, Invariant, PTL

-----------------------------------------------------------------------------
(* The refinement.                                                         *)

LEMMA InitLog == Init => Log!Init
<1>. QED  BY DEF Init, Log!Init

\* What a step does to the log: a commit appends to it, the sync of a WAL and
\* the end of the last connection make it durable, a power loss cuts it, and
\* no other step is seen.
LEMMA StepLog == IInv /\ IInv' /\ [Next]_vars => [Log!Next]_Log!vars
<1> SUFFICES ASSUME IInv, IInv', [Next]_vars PROVE [Log!Next]_Log!vars
  OBVIOUS
<1>1. (torn => risky) = TRUE /\ (torn => risky)' = TRUE
  BY DEF IInv, Ordered
<1>2. ASSUME UNCHANGED <<last, walSynced>> PROVE [Log!Next]_Log!vars
  BY <1>1, <1>2 DEF Log!vars
<1>3. ASSUME NEW restart \in BOOLEAN, Commit(restart) PROVE Log!Next
  <2>1. last' = last + 1 /\ walSynced' \in walSynced..last'
    BY <1>3, MaxTxAssumption DEF Commit, IInv, TypeOK, Positions, Txs
  <2>. QED  BY <1>1, <2>1 DEF Log!Next, Log!Commit
<1>4. CASE PowerLoss
  <2>1. last' \in walSynced..last /\ walSynced' = last'
    BY <1>4 DEF PowerLoss
  <2>. QED  BY <1>1, <2>1 DEF Log!Next, Log!Crash
<1>5. CASE CkptSyncWal \/ FinalCkptEnd
  <2>1. last' = last /\ walSynced' \in walSynced..last
    BY <1>5, MaxTxAssumption DEF CkptSyncWal, FinalCkptEnd, IInv, TypeOK, Positions, Txs
  <2>. QED  BY <1>1, <2>1 DEF Log!Next, Log!Persist
<1>6. CASE Reopen \/ Kill \/ AutoCheckpoint \/ Fsync \/ FsyncSkipped
  BY <1>2, <1>6 DEF Reopen, Kill, AutoCheckpoint, Fsync, FsyncSkipped, files
<1>7. CASE MainCkptEnd \/ ThreadCkptEnd \/ ThreadOpenFails
  BY <1>2, <1>7 DEF MainCkptEnd, ThreadCkptEnd, ThreadOpenFails, files
<1>8. CASE ThreadTimeout \/ ThreadStop \/ Stop \/ Close \/ Drop
  BY <1>2, <1>8 DEF ThreadTimeout, ThreadStop, Stop, Close, Drop, files
<1>9. CASE UNCHANGED vars
  BY <1>2, <1>9 DEF vars
<1>. QED  BY <1>3, <1>4, <1>5, <1>6, <1>7, <1>8, <1>9 DEF Next

\* Two checkpointing connections, a WAL that starts over, kills and power losses
\* implement the log with a durable prefix.
THEOREM Refinement == Spec => ImplementsDurableLog
<1>1. Spec => Log!Init /\ [][Log!Next]_Log!vars
  BY InitLog, StepLog, Invariant, PTL DEF Spec
<1>. QED  BY <1>1 DEF ImplementsDurableLog, Log!Spec
=============================================================================
