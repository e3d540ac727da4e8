---------------------------- MODULE Durability ----------------------------
(***************************************************************************)
(* Which committed transactions survive what.  The session's connection    *)
(* commits, checkpoints and closes (rust/src/fs.rs, mkfs.rs, schema.rs);   *)
(* the checkpoint thread checkpoints on a timer through a connection of    *)
(* its own; the process may be killed and the machine lose power at any    *)
(* step.                                                                   *)
(*                                                                         *)
(* SQLite is external.  A transaction is its number, and a position in the *)
(* WAL or in the database file is the number of the last transaction it    *)
(* holds.  A checkpoint takes the checkpoint lock, syncs the WAL, copies   *)
(* pages into the database file, and syncs that file if it has reached the *)
(* end of the WAL; a connection with `synchronous = OFF` omits the syncs.  *)
(* A second connection that finds the lock taken reports busy in a result  *)
(* row and not as an error.                                                *)
(***************************************************************************)
EXTENDS Integers

CONSTANTS
    Modes,      \* how a session may be opened
    MaxTx       \* bound: transactions committed in a behaviour

ASSUME ModesAssumption == Modes \subseteq {"full", "normal", "off", "readonly"}
ASSUME MaxTxAssumption == MaxTx \in Nat

VARIABLES
    mode,       \* OpenOptions.sync_mode, or "readonly"
    pc,         \* what the thread that owns the Filesystem is doing
    thread,     \* the checkpoint thread
    stop,       \* the thread's channel holds a message or is disconnected
    last,       \* transactions committed
    walBase,    \* the WAL file holds the transactions after this one
    walSynced,  \* ... and has reached the disk up to this one
    backfilled, \* nBackfill of the WAL index
    copied,     \* pages of transactions up to this one may be in the database
    dbSynced,   \* ... and have reached the disk up to this one
    ckptBy,     \* the connection that holds the checkpoint lock
    upto,       \* the end of the WAL as that checkpoint saw it
    copying,    \* that checkpoint is past the sync of the WAL
    acked,      \* the transactions an fsync of this session returned Ok for
    torn,       \* a power loss left part of a transaction
    risky       \* some session so far ran with sync_mode off

files == <<last, walBase, walSynced, copied, dbSynced, torn>>
ckpt == <<backfilled, ckptBy, upto, copying>>
control == <<mode, pc, thread, stop, acked, risky>>
vars == <<mode, pc, thread, stop, last, walBase, walSynced, backfilled, copied,
          dbSynced, ckptBy, upto, copying, acked, torn, risky>>

Txs == 0..MaxTx

\* The places of the two threads, and the lock.
ControlTypes ==
    /\ mode \in Modes
    /\ pc \in {"idle", "fsync", "auto", "stopping", "closing", "dropped",
               "closed", "down"}
    /\ thread \in {"none", "starting", "waiting", "checkpointing", "closing", "done"}
    /\ ckptBy \in {"none", "main", "thread"}

FlagTypes ==
    stop \in BOOLEAN /\ copying \in BOOLEAN /\ torn \in BOOLEAN /\ risky \in BOOLEAN

\* The positions in the two files, and the order they keep in every mode.
Positions ==
    /\ last \in Txs /\ walBase \in Txs /\ walSynced \in Txs /\ backfilled \in Txs
    /\ copied \in Txs /\ dbSynced \in Txs /\ upto \in Txs /\ acked \in Txs
    /\ walBase <= backfilled /\ backfilled <= last
    /\ walBase <= walSynced /\ walSynced <= last
    /\ copied <= last /\ acked <= last

TypeOK == ControlTypes /\ FlagTypes /\ Positions

-----------------------------------------------------------------------------
(* Sessions.                                                               *)

\* open_fs: the thread only where an interval is given and writing allowed.
Starts(m) == IF m = "readonly" THEN {"none"} ELSE {"none", "starting"}

Init ==
    /\ mode \in Modes
    /\ thread \in Starts(mode)
    /\ pc = "idle" /\ stop = FALSE
    /\ last = 0 /\ walBase = 0 /\ walSynced = 0 /\ backfilled = 0
    /\ copied = 0 /\ dbSynced = 0 /\ upto = 0 /\ acked = 0
    /\ ckptBy = "none" /\ copying = FALSE /\ torn = FALSE
    /\ risky = IF mode = "off" THEN TRUE ELSE FALSE

Reopen ==
    /\ pc \in {"closed", "down"} /\ thread \in {"none", "done"}
    /\ mode' \in Modes
    /\ thread' \in Starts(mode')
    /\ pc' = "idle" /\ stop' = FALSE /\ acked' = 0
    /\ risky' = IF mode' = "off" THEN TRUE ELSE risky
    /\ UNCHANGED <<files, ckpt>>

\* Mutant of ProcessGone: nBackfill is taken to outlive the WAL index.
ProcessGoneIndexKept ==
    /\ pc' = "down" /\ thread' = "none" /\ stop' = FALSE
    /\ ckptBy' = "none" /\ copying' = FALSE /\ upto' = 0
    /\ acked' = 0
    /\ UNCHANGED <<mode, risky, backfilled>>

\* The process is gone; what it wrote stays with the operating system.  The
\* next connection rebuilds the WAL index, nBackfill with it.
ProcessGone ==
    /\ pc' = "down" /\ thread' = "none" /\ stop' = FALSE
    /\ ckptBy' = "none" /\ copying' = FALSE /\ upto' = 0
    /\ backfilled' = walBase
    /\ acked' = 0
    /\ UNCHANGED <<mode, risky>>

Kill ==
    /\ pc # "down"
    /\ ProcessGone
    /\ UNCHANGED files

\* After a power loss the WAL is good up to w.  Pages that were on their way
\* into the database file, and are not in the WAL, are there in part.
Tears(w) == dbSynced < walBase \/ (dbSynced < copied /\ w < copied)

PowerLoss ==
    /\ ProcessGone
    /\ \E w \in walSynced..last :
          /\ last' = w /\ walSynced' = w
          /\ copied' = IF copied <= w THEN copied ELSE w
          /\ torn' = IF Tears(w) THEN TRUE ELSE torn
    /\ UNCHANGED <<walBase, dbSynced>>

-----------------------------------------------------------------------------
(* Commits.                                                                *)

\* Mutant of WalRestarts: a WAL that is only partly copied starts over.
WalRestartsEarly == last > walBase

\* A writer may start the WAL over once all of it is in the database.
WalRestarts == backfilled = last /\ last > walBase

\* Any operation that writes, up to the return of its COMMIT.
Commit(restart) ==
    /\ pc = "idle" /\ mode # "readonly"
    /\ last < MaxTx
    /\ restart => WalRestarts
    /\ last' = last + 1
    /\ walBase' = IF restart THEN last ELSE walBase
    /\ walSynced' = IF mode = "full" THEN last + 1
                    ELSE IF restart THEN last ELSE walSynced
    /\ backfilled' = IF restart THEN last ELSE backfilled
    /\ UNCHANGED <<copied, dbSynced, torn, control, ckptBy, upto, copying>>

-----------------------------------------------------------------------------
(* Checkpoints.                                                            *)

\* Mutant of Syncs: the thread's connection is opened without syncs.
SyncsMainOnly(c) == c = "main" /\ mode # "off"

\* Whether connection c syncs: the pragma is set on the session's connection
\* only, the thread's has the default.
Syncs(c) == c = "thread" \/ mode # "off"

CkptLock(c) ==
    /\ ckptBy = "none"
    /\ ckptBy' = c /\ upto' = last /\ copying' = FALSE
    /\ UNCHANGED backfilled

\* Mutant of CkptSyncWal: pages are copied before the WAL is synced.
CkptCopyFirst ==
    /\ ckptBy # "none" /\ ~copying /\ backfilled < upto
    /\ copied' = IF copied <= upto THEN upto ELSE copied
    /\ copying' = TRUE
    /\ UNCHANGED <<last, walBase, walSynced, dbSynced, torn, control, backfilled,
                   ckptBy, upto>>

CkptSyncWal ==
    /\ ckptBy # "none" /\ ~copying /\ backfilled < upto
    /\ walSynced' = IF Syncs(ckptBy) THEN last ELSE walSynced
    /\ copied' = IF copied <= upto THEN upto ELSE copied
    /\ copying' = TRUE
    /\ UNCHANGED <<last, walBase, dbSynced, torn, control, backfilled, ckptBy, upto>>

\* Mutant of DbSyncedAfter: the database file is never synced.
DbNeverSynced == dbSynced

\* The database file is synced once it holds all of the WAL.
DbSyncedAfter ==
    IF copying /\ upto = last /\ Syncs(ckptBy) THEN upto ELSE dbSynced

\* The end of a checkpoint, of one with nothing to do as well.
CkptDone ==
    /\ ckptBy # "none" /\ (copying \/ backfilled >= upto)
    /\ dbSynced' = DbSyncedAfter
    /\ backfilled' = IF copying THEN upto ELSE backfilled
    /\ ckptBy' = "none" /\ copying' = FALSE /\ upto' = 0

\* ... of fsync and fsyncdir, which return Ok, and of SQLite's own.
MainCkptEnd ==
    /\ pc \in {"fsync", "auto"}
    /\ ckptBy = "main"
    /\ CkptDone
    /\ pc' = "idle"
    /\ acked' = IF pc = "fsync" THEN last ELSE acked
    /\ UNCHANGED <<last, walBase, walSynced, copied, torn, mode, thread, stop, risky>>

\* ... of the thread, which waits for its next timeout.
ThreadCkptEnd ==
    /\ thread = "checkpointing"
    /\ ckptBy = "thread"
    /\ CkptDone
    /\ thread' = "waiting"
    /\ UNCHANGED <<last, walBase, walSynced, copied, torn, mode, pc, stop, acked, risky>>

\* ... of the last connection as it closes, which removes the WAL file.
FinalCkptEnd ==
    /\ pc = "closing" \/ thread = "closing"
    /\ CkptDone
    /\ walBase' = last /\ walSynced' = last
    /\ pc' = "closed"
    /\ thread' = IF thread = "closing" THEN "done" ELSE thread
    /\ UNCHANGED <<last, copied, torn, mode, stop, acked, risky>>

\* SQLite checkpoints of itself after a commit that leaves the WAL long.
AutoCheckpoint ==
    /\ pc = "idle" /\ mode # "readonly" /\ backfilled < last
    /\ CkptLock("main")
    /\ pc' = "auto"
    /\ UNCHANGED <<files, mode, thread, stop, acked, risky>>

-----------------------------------------------------------------------------
(* fsync and fsyncdir.                                                     *)

Fsync ==
    /\ pc = "idle" /\ mode # "readonly"
    /\ CkptLock("main")
    /\ pc' = "fsync"
    /\ UNCHANGED <<files, mode, thread, stop, acked, risky>>

\* The checkpoint lock is the thread's: the pragma answers busy, the row is
\* not looked at, and the call returns Ok.  A read-only session does nothing.
FsyncSkipped ==
    /\ pc = "idle"
    /\ mode = "readonly" \/ ckptBy # "none"
    /\ acked' = last
    /\ UNCHANGED <<files, ckpt, mode, pc, thread, stop, risky>>

-----------------------------------------------------------------------------
(* The checkpoint thread.                                                  *)

\* Connection::open fails and the thread returns.  A success does not touch
\* the database yet: the thread is "starting" until its first checkpoint.
ThreadOpenFails ==
    /\ thread = "starting"
    /\ thread' = "done"
    /\ UNCHANGED <<files, ckpt, mode, pc, stop, acked, risky>>

\* recv_timeout ends with Timeout: a passive checkpoint, busy ignored.
ThreadTimeout ==
    /\ thread \in {"starting", "waiting"} /\ ~stop
    /\ \/ CkptLock("thread") /\ thread' = "checkpointing"
       \/ ckptBy # "none" /\ thread' = "waiting" /\ UNCHANGED ckpt
    /\ UNCHANGED <<files, mode, pc, stop, acked, risky>>

\* recv_timeout ends with the message or the disconnection: the loop ends and
\* the connection closes.  It is the last one if the session's has gone.
ThreadStop ==
    /\ thread \in {"starting", "waiting"} /\ stop
    /\ IF pc = "dropped"
       THEN CkptLock("thread") /\ thread' = "closing"
       ELSE thread' = "done" /\ UNCHANGED ckpt
    /\ UNCHANGED <<files, mode, pc, stop, acked, risky>>

-----------------------------------------------------------------------------
(* The end of a session.                                                   *)

\* Mutant of Stop: the thread is joined without being told to end.
StopUnsent ==
    /\ pc = "idle"
    /\ pc' = "stopping"
    /\ UNCHANGED <<files, ckpt, mode, thread, stop, acked, risky>>

\* close up to the join: the message is sent.
Stop ==
    /\ pc = "idle"
    /\ pc' = "stopping" /\ stop' = TRUE
    /\ UNCHANGED <<files, ckpt, mode, thread, acked, risky>>

\* The connection closes as the last one.  One that cannot write leaves the
\* files as they are.
CloseLast ==
    IF mode = "readonly"
    THEN /\ pc' = "down"
         /\ backfilled' = walBase
         /\ UNCHANGED <<ckptBy, upto, copying>>
    ELSE pc' = "closing" /\ CkptLock("main")

\* The rest of close: the thread is joined.
Close ==
    /\ pc = "stopping" /\ thread \in {"none", "done"}
    /\ CloseLast
    /\ UNCHANGED <<files, mode, thread, stop, acked, risky>>

\* The Filesystem is dropped without close, as at the end of a mount: the
\* connection closes first, then the channel disconnects, and nobody joins.
Drop ==
    /\ pc = "idle"
    /\ stop' = TRUE
    /\ IF thread \in {"waiting", "checkpointing"}
       THEN pc' = "dropped" /\ UNCHANGED ckpt
       ELSE CloseLast
    /\ UNCHANGED <<files, mode, thread, acked, risky>>

-----------------------------------------------------------------------------
Next ==
    \/ Reopen \/ Kill \/ PowerLoss
    \/ \E restart \in BOOLEAN : Commit(restart)
    \/ AutoCheckpoint \/ Fsync \/ FsyncSkipped
    \/ CkptSyncWal \/ MainCkptEnd \/ ThreadCkptEnd \/ FinalCkptEnd
    \/ ThreadOpenFails \/ ThreadTimeout \/ ThreadStop
    \/ Stop \/ Close \/ Drop

\* A call that has begun goes on, and so does the thread, which is never
\* without a timeout for long.  Nobody has to commit, sync or close, and a
\* kill or a power loss need not happen.
Fairness ==
    /\ WF_vars(CkptSyncWal) /\ WF_vars(MainCkptEnd)
    /\ WF_vars(ThreadCkptEnd) /\ WF_vars(FinalCkptEnd) /\ WF_vars(Close)
    /\ WF_vars(ThreadTimeout) /\ WF_vars(ThreadStop)

Spec == Init /\ [][Next]_vars

FairSpec == Spec /\ Fairness

-----------------------------------------------------------------------------
(* Properties.                                                             *)

\* A power loss leaves part of a transaction only if some session ran with
\* sync_mode off, whatever two connections and a restarting WAL were doing.
NeverTorn == torn => risky

\* rust/package/specs/src/fs.rs.engspec: "`fsync(fd)`: force current state to
\* durable storage".  What an fsync of a writing session returned Ok for is
\* beyond the reach of a power loss.
FsyncDurable == mode # "readonly" => acked <= walSynced

\* The same where no checkpoint thread was started: nobody else takes the
\* checkpoint lock, so fsync always does its work.
FsyncDurableAlone ==
    thread = "none" /\ mode # "readonly" /\ ~risky => acked <= walSynced

\* Once the last connection has closed, after close or after a drop, every
\* commit is in the database file and on the disk.
ClosedDurable == pc = "closed" /\ ~risky => dbSynced = last /\ walBase = last

Log == INSTANCE DurableLog WITH log <- last, durable <- walSynced, intact <- (torn => risky)

\* Commits, checkpoints by two connections, restarts of the WAL, kills and
\* power losses together behave as a log with a durable prefix.
ImplementsDurableLog == Log!Spec

\* close returns, whatever the thread was doing when it was called.
CloseReturns == pc = "stopping" ~> pc \in {"closed", "down"}

\* With the thread running, every commit becomes durable although nobody
\* calls fsync: the window of loss closes.
DurableSoon ==
    \A t \in 1..MaxTx :
        last >= t /\ thread \in {"waiting", "checkpointing"} /\ ~risky
            ~> walSynced >= t \/ thread \notin {"waiting", "checkpointing"} \/ last < t
=============================================================================
