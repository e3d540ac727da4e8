------------------------------- MODULE Watch -------------------------------
(***************************************************************************)
(* Watchers: the registry of rust/src/watch.rs, and the calls of fs.rs     *)
(* that announce what they did.  A slot is matched by the path string it   *)
(* was given, and an event carries the path string of the call, so what a  *)
(* watcher hears depends on how both are spelled.  A call emits after its  *)
(* commit; `unlink` does so after its trailing delete, and not at all if   *)
(* that fails.                                                             *)
(*                                                                         *)
(* mirror is the consumer's: it lists the directory when it subscribes and *)
(* applies each event it receives.                                         *)
(***************************************************************************)
EXTENDS Paths

CONSTANTS
    Watchers,   \* Watcher objects
    MaxQueue    \* bound: events that wait in one channel

ASSUME WatchAssumption == MaxQueue \in Nat

VARIABLES
    slots,      \* WatchRegistry.slots; dir is the inode the path led to
    queue,      \* the channel of each slot
    owed,       \* the path of the running unlink, which it announces last
    mirror,     \* what the consumer believes the directory holds
    deaf        \* the consumer has been left uninformed, see Deafened

watching == <<slots, queue, owed, mirror, deaf>>
wvars == <<vars, watching>>

NoSlot == [path |-> <<>>, recursive |-> FALSE, dir |-> None]
NoEvent == [kind |-> "none", paths |-> <<>>, inode |-> None]
Kinds == {"Create", "Remove", "Move", "Modify", "Metadata"}

WatchTypeOK ==
    /\ \A w \in Watchers :
          /\ slots[w].recursive \in BOOLEAN /\ slots[w].dir \in Inodes \cup {None}
          /\ \A k \in DOMAIN queue[w] :
                /\ queue[w][k].kind \in Kinds
                /\ Len(queue[w][k].paths) = IF queue[w][k].kind = "Move" THEN 2 ELSE 1
          /\ slots[w].dir = None => queue[w] = <<>>
          /\ mirror[w] \in [Names -> Inodes \cup {None}]
    /\ deaf \in [Watchers -> BOOLEAN]
    /\ owed # NoEvent => pending # None

-----------------------------------------------------------------------------
(* watch.rs.                                                               *)

\* Mutant of parent_of_path: a name at the top has no directory.
parent_of_path_unrooted(q) == IF Len(q) = 0 THEN <<>> ELSE IF Len(q) = 1 THEN q ELSE Front(q)

parent_of_path(q) == IF Len(q) <= 1 THEN <<>> ELSE Front(q)

path_matches(q, s) ==
    IF s.recursive THEN IsStrictPrefix(s.path, q) ELSE parent_of_path(q) = s.path

\* Mutant of matches_slot: only the first path of the event is looked at.
matches_slot_source(s, e) == path_matches(e.paths[1], s)

\* A Move is heard at both ends.
matches_slot(s, e) == \E k \in DOMAIN e.paths : path_matches(e.paths[k], s)

\* What leaves a watcher uninformed: its path has come to lead elsewhere, for
\* watches are by path and not by inode; or the event says a name of its
\* directory with a slash behind it, and looks like one of the name's own.
Deafened(w, e) ==
    \/ resolve_to_inode(slots[w].path)' # slots[w].dir
    \/ \E k \in DOMAIN e.paths : /\ e.paths[k] # parse_path(e.paths[k])
                                 /\ slots[w].path = parent_of_path(parse_path(e.paths[k]))

\* The state of the watchers once those in D have become deaf and the others
\* have got e if it matches.  What a deaf one still gets is not followed.
Informed(D, e) ==
    /\ deaf' = [w \in Watchers |-> deaf[w] \/ (slots[w].dir # None /\ w \in D)]
    /\ queue' = [w \in Watchers |->
          IF deaf'[w] THEN <<>>
          ELSE IF slots[w].dir # None /\ matches_slot(slots[w], e) THEN Append(queue[w], e)
          ELSE queue[w]]
    /\ mirror' = [w \in Watchers |-> IF deaf'[w] THEN NoListing ELSE mirror[w]]
    /\ \A w \in Watchers : Len(queue'[w]) <= MaxQueue

\* Filesystem::emit: every live slot that matches gets the event.
Emit(e) ==
    /\ UNCHANGED slots
    /\ Informed({w \in Watchers : Deafened(w, e)}, e)

Event(k, paths, i) == [kind |-> k, paths |-> paths, inode |-> i]

-----------------------------------------------------------------------------
(* The calls of Filesystem.                                                *)

WInit ==
    /\ Init
    /\ slots = [w \in Watchers |-> NoSlot]
    /\ queue = [w \in Watchers |-> <<>>]
    /\ owed = NoEvent
    /\ mirror = [w \in Watchers |-> NoListing]
    /\ deaf = [w \in Watchers |-> FALSE]

\* watch(path): the path is kept as it is given, here without a slash at the
\* end.  One with a slash matches no event and stays deaf from the start.
Subscribe(w, d, rec) ==
    /\ pending = None
    /\ slots[w].dir = None
    /\ kind[d] = "dir" /\ Resolvable(d)
    /\ slots' = [slots EXCEPT ![w] = [path |-> PathOfDir(d), recursive |-> rec, dir |-> d]]
    /\ mirror' = [mirror EXCEPT ![w] = entries[d]]
    /\ UNCHANGED <<vars, queue, owed, deaf>>

\* The Watcher is dropped.
Unsubscribe(w) ==
    /\ slots[w].dir # None
    /\ slots' = [slots EXCEPT ![w] = NoSlot]
    /\ queue' = [queue EXCEPT ![w] = <<>>]
    /\ mirror' = [mirror EXCEPT ![w] = NoListing]
    /\ deaf' = [deaf EXCEPT ![w] = FALSE]
    /\ UNCHANGED <<vars, owed>>

\* What the consumer makes of event e in the directory it watches at path p.
Applied(m, p, e) ==
    [n \in Names |->
        LET q == Append(p, n)
        IN  CASE e.kind = "Create" /\ e.paths[1] = q -> e.inode
              [] e.kind = "Remove" /\ e.paths[1] = q -> None
              [] e.kind = "Move" /\ e.paths[2] = q -> e.inode
              [] e.kind = "Move" /\ e.paths[1] = q -> None
              [] OTHER -> m[n]]

\* try_recv and recv.
Recv(w) ==
    /\ queue[w] # <<>>
    /\ queue' = [queue EXCEPT ![w] = Tail(@)]
    /\ mirror' = [mirror EXCEPT ![w] = Applied(@, slots[w].path, Head(queue[w]))]
    /\ UNCHANGED <<vars, slots, owed, deaf>>

WCreate(p, n) ==
    /\ Mkdir(p, n) \/ CreateNew(p, n) \/ Symlink(p, n)
    /\ \E q \in Spellings(p, n) : Emit(Event("Create", <<q>>, entries'[p][n]))
    /\ UNCHANGED owed

WLink(tp, tn, p, n) ==
    /\ Link(tp, tn, p, n)
    /\ \E q \in Spellings(p, n) : Emit(Event("Create", <<q>>, entries[tp][tn]))
    /\ UNCHANGED owed

WRmdir(p, n) ==
    /\ Rmdir(p, n)
    /\ \E q \in Spellings(p, n) : Emit(Event("Remove", <<q>>, entries[p][n]))
    /\ UNCHANGED owed

WRename(sp, sn, dp, dn) ==
    /\ RenameMove(sp, sn, dp, dn) \/ RenameReplace(sp, sn, dp, dn)
    /\ \E s \in Spellings(sp, sn), d \in Spellings(dp, dn) :
          Emit(Event("Move", <<s, d>>, entries[sp][sn]))
    /\ UNCHANGED owed

\* unlink announces the removal itself, unless the node is yet to be deleted.
WUnlink(p, n) ==
    /\ Unlink(p, n)
    /\ \E q \in Spellings(p, n) :
          LET e == Event("Remove", <<q>>, entries[p][n])
          IN  IF pending' = None
              THEN Emit(e) /\ UNCHANGED owed
              ELSE owed' = e /\ UNCHANGED <<slots, queue, mirror, deaf>>

\* The delete at the end of unlink, and then the event; or of close_fd.
WReclaim ==
    /\ Reclaim
    /\ Emit(owed)
    /\ owed' = NoEvent

\* Mutant of WReclaimFails: the removal stays to be announced.
WReclaimFailsOwing ==
    /\ ReclaimFails
    /\ UNCHANGED <<owed, slots>>
    /\ Informed({w \in Watchers : matches_slot(slots[w], owed) \/ Deafened(w, owed)}, NoEvent)

\* The delete fails and unlink returns before the event.
WReclaimFails ==
    /\ ReclaimFails
    /\ owed' = NoEvent
    /\ UNCHANGED slots
    /\ Informed({w \in Watchers : matches_slot(slots[w], owed) \/ Deafened(w, owed)}, NoEvent)

\* write_fd: the path is looked up after the commit, none if unlinked.
Write(f) ==
    /\ RequireWritable
    /\ fds[f] # None /\ kind[fds[f]] # "none"
    /\ UNCHANGED vars
    /\ IF path_for_inode(fds[f]) = {}
       THEN UNCHANGED watching
       ELSE /\ \E q \in path_for_inode(fds[f]) : Emit(Event("Modify", <<q>>, fds[f]))
            /\ UNCHANGED owed

\* chmod, chown, utimes, setxattr, removexattr; of the root too.
Metadata(i) ==
    /\ RequireWritable
    /\ UNCHANGED <<vars, owed>>
    /\ \E q \in IF i = ROOT_INODE THEN {<<>>}
                ELSE UNION {Spellings(e[1], e[2]) : e \in Links(i)} :
          Emit(Event("Metadata", <<q>>, i))

\* create of a taken name, open - truncating too - and close_fd are silent.
Silent ==
    /\ \/ \E p \in Inodes, n \in Names : CreateExisting(p, n) \/ Open(p, n)
       \/ \E f \in Fds : CloseFd(f)
    /\ UNCHANGED watching

\* The session ends, and its registry with it.
WReopen ==
    /\ Reopen
    /\ slots' = [w \in Watchers |-> NoSlot]
    /\ queue' = [w \in Watchers |-> <<>>]
    /\ owed' = NoEvent
    /\ mirror' = [w \in Watchers |-> NoListing]
    /\ deaf' = [w \in Watchers |-> FALSE]

WNext ==
    \/ WReopen \/ WReclaim \/ WReclaimFails \/ Silent
    \/ \E w \in Watchers :
          \/ \E d \in Inodes, rec \in BOOLEAN : Subscribe(w, d, rec)
          \/ Unsubscribe(w)
          \/ Recv(w)
    \/ \E f \in Fds : Write(f)
    \/ \E i \in Inodes : Metadata(i)
    \/ \E p \in Inodes, n \in Names :
          WCreate(p, n) \/ WRmdir(p, n) \/ WUnlink(p, n)
    \/ \E p, q \in Inodes, m, n \in Names :
          WLink(p, m, q, n) \/ WRename(p, m, q, n)

WSpec == WInit /\ [][WNext]_wvars

-----------------------------------------------------------------------------
(* Properties.                                                             *)

\* The listing a consumer ends up with once it has received what waits.
Replayed(w) ==
    LET after[k \in 0..Len(queue[w])] ==
            IF k = 0 THEN mirror[w] ELSE Applied(after[k - 1], slots[w].path, queue[w][k])
    IN  after[Len(queue[w])]

\* The events are enough to follow a directory: a consumer that listed it and
\* applies them in order ends up with exactly its entries, inode numbers
\* included, as long as its path leads to that directory, names are spelled
\* without a slash at the end, and no delete has failed in unlink.
MirrorsDirectory ==
    \A w \in Watchers :
        slots[w].dir # None /\ ~deaf[w] /\ owed = NoEvent
            => Replayed(w) = entries[slots[w].dir]

\* The newest event of w says what is so.
LastEventTrue(w) ==
    LET e == Last(queue[w])
    IN  /\ resolve_to_inode(Last(e.paths)) = IF e.kind = "Remove" THEN None ELSE e.inode
        /\ e.kind = "Move" => resolve_to_inode(e.paths[1]) = None

\* An event is true when it is sent: what was created, moved to or written is
\* what its path leads to, and at a path that was removed or moved from there
\* is nothing any more.
EventsTruthful ==
    [][\A w \in Watchers : Len(queue'[w]) > Len(queue[w]) => LastEventTrue(w)']_wvars

\* A write to an open file whose names are all in the watched directory will
\* be heard there, through whichever of the names path_for_inode finds.
WritesHeard ==
    \A f \in Fds, w \in Watchers :
        fds[f] # None /\ ~deaf[w] /\ ParentsOf(fds[f]) = {slots[w].dir}
            => \A q \in path_for_inode(fds[f]) :
                  matches_slot(slots[w], Event("Modify", <<q>>, fds[f]))
=============================================================================
