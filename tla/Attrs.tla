------------------------------- MODULE Attrs -------------------------------
(***************************************************************************)
(* The attributes of one node - mode, owner, times, emptiness, extended    *)
(* attributes - and the requests that change them: chmod, chown, utimes,   *)
(* setxattr, removexattr and open of rust/src/fs.rs, called by the program *)
(* that embeds the library or by the FUSE adapter in the name of a user.   *)
(*                                                                         *)
(* A request is a sequence of calls, or of statements of a call, each of   *)
(* which commits by itself: the adapter's setattr is chmod, chown, utimes  *)
(* and a truncating open, as far as asked; setxattr and removexattr write  *)
(* the attribute and then ctime.  A later call is checked against what the *)
(* earlier ones have made of the node.  Between two of them the session    *)
(* can end or a statement fail.                                            *)
(***************************************************************************)
EXTENDS Integers, Sequences

CONSTANTS
    Users,      \* identities: records with uid and gid
    Sessions,   \* those a session may be opened with
    Owners,     \* those chown may be asked for
    Modes,      \* permission bits: functions from classes to sets of bits
    Times,      \* times a caller may ask for, 0 is the epoch
    Now,        \* what the clock shows
    XNames,     \* xattr names; Trusted are those in the namespace trusted
    Trusted,
    Values      \* xattr values

ASSUME UsersAssumption ==
    /\ \A u \in Users : u.uid \in Nat /\ u.gid \in Nat
    /\ Sessions \subseteq Users /\ Owners \subseteq Users
ASSUME XattrAssumption == Trusted \subseteq XNames /\ -1 \notin Values
ASSUME TimesAssumption == Times \subseteq Int \ {-1} /\ Now \in Nat

Unset == -1                    \* an Option that is None; no such xattr
Bits == {"r", "w", "x"}
Classes == {"owner", "group", "other"}
Uids == {u.uid : u \in Owners}
Gids == {u.gid : u \in Owners}

VARIABLES
    kind,       \* nodes.kind
    node,       \* the row and its xattrs; behind: ctime is older than they are
    writer,     \* an fd that may write is open
    readonly,   \* Filesystem.readonly
    self,       \* the identity the session was opened with
    caller,     \* Filesystem.caller_uid and caller_gid
    req,        \* the request that runs: its issuer, its calls, those to come
    before      \* the node as the request found it

vars == <<kind, node, writer, readonly, self, caller, req, before>>

NoReq == [who |-> [uid |-> Unset, gid |-> Unset], asked |-> <<>>, todo |-> <<>>]
Idle == req = NoReq

-----------------------------------------------------------------------------
(* perms.rs.                                                               *)

\* The class of caller c for a node with attributes a: the first that fits.
ClassOf(a, c) ==
    IF c.uid = a.uid THEN "owner" ELSE IF c.gid = a.gid THEN "group" ELSE "other"

check_access(a, c, access) ==
    IF c.uid = 0
    THEN "x" \in access => \E k \in Classes : "x" \in a.mode[k]
    ELSE access \subseteq a.mode[ClassOf(a, c)]

OwnerOrRoot(a, c) == c.uid = 0 \/ c.uid = a.uid

-----------------------------------------------------------------------------
(* What a call is allowed to do, by the attributes a it finds, and what it *)
(* makes of them.                                                          *)

\* The adapter's conversion of a time: one before the epoch becomes it.
to_ns(t) == IF t < 0 THEN 0 ELSE t

chmod_ok(a, c) == OwnerOrRoot(a, c)

\* The owner's number may be given by anyone who does not change it.
chown_ok(a, c, s) ==
    /\ s.uid # Unset /\ s.uid # a.uid => c.uid = 0
    /\ s.gid # Unset => OwnerOrRoot(a, c)

utimes_ok(a, c) == OwnerOrRoot(a, c)

\* check_open_access: by the access mode, O_TRUNC not being one.
open_ok(a, c, s) == kind # "dir" /\ check_access(a, c, s.access)

setxattr_ok(a, c, s) ==
    /\ check_access(a, c, {"w"})
    /\ s.name \in Trusted => c.uid = 0
    /\ "CREATE" \in s.flags => a.xattrs[s.name] = Unset
    /\ "REPLACE" \in s.flags => a.xattrs[s.name] # Unset

removexattr_ok(a, c, s) == check_access(a, c, {"w"}) /\ a.xattrs[s.name] # Unset

\* open asks whether the session may write only where it truncates.
Allowed(a, c, s) ==
    /\ readonly => s.call = "open" /\ ~s.trunc
    /\ CASE s.call = "chmod" -> chmod_ok(a, c)
         [] s.call = "chown" -> chown_ok(a, c, s)
         [] s.call = "utimes" -> utimes_ok(a, c)
         [] s.call = "open" -> open_ok(a, c, s)
         [] s.call = "resize" -> FALSE      \* "non-zero truncate not supported"
         [] s.call = "setxattr" -> setxattr_ok(a, c, s)
         [] s.call = "removexattr" -> removexattr_ok(a, c, s)
         [] s.call = "ctime" -> TRUE

Given(new, old) == IF new = Unset THEN old ELSE new

\* A truncation, which goes through update_size and so sets mtime.
Truncating(s) == s.call = "open" /\ s.trunc

\* update_mode_uid_gid, update_times and update_size set ctime in the same
\* statement; the tables of xattrs and of nodes are written one after the other.
Applied(a, s) ==
    CASE s.call = "chmod" -> [a EXCEPT !.mode = s.mode, !.behind = FALSE]
      [] s.call = "chown" -> [a EXCEPT !.uid = Given(s.uid, @), !.gid = Given(s.gid, @),
                                       !.behind = FALSE]
      [] s.call = "utimes" -> [a EXCEPT !.mtime = Given(s.mtime, @), !.behind = FALSE]
      [] s.call = "open" -> IF Truncating(s)
                            THEN [a EXCEPT !.empty = TRUE, !.mtime = Now, !.behind = FALSE]
                            ELSE a
      [] s.call = "setxattr" -> [a EXCEPT !.xattrs[s.name] = s.value, !.behind = TRUE]
      [] s.call = "removexattr" -> [a EXCEPT !.xattrs[s.name] = Unset, !.behind = TRUE]
      [] s.call = "ctime" -> [a EXCEPT !.behind = FALSE]

-----------------------------------------------------------------------------
(* Requests.                                                               *)

Init ==
    /\ kind \in {"file", "dir"}
    /\ self \in Sessions
    /\ node \in [mode : Modes, uid : {self.uid}, gid : {self.gid}, mtime : {0},
                 empty : {TRUE}, xattrs : {[x \in XNames |-> Unset]}, behind : {FALSE}]
    /\ writer = FALSE
    /\ readonly \in BOOLEAN
    /\ caller = self
    /\ req = NoReq
    /\ before = node

Begins(who, calls) ==
    /\ Idle
    /\ req' = [who |-> who, asked |-> calls, todo |-> calls]
    /\ before' = node
    /\ UNCHANGED <<kind, node, writer, readonly, self>>

\* A call of the embedding program, as the identity the session has.
LibRequest(calls) ==
    /\ Begins(self, calls)
    /\ UNCHANGED caller

\* as_user: a callback runs as the user the kernel names.
FuseRequest(who, calls) ==
    /\ Begins(who, calls)
    /\ caller' = who

\* Mutant of Released: the guard does not put the identity back.
ReleasedNot == UNCHANGED caller

\* The guard is dropped at the end of the callback, on every way out.
Released == caller' = self

Ends ==
    /\ req' = NoReq
    /\ Released
    /\ before' = node
    /\ UNCHANGED <<kind, node, writer, readonly, self>>

Step == Head(req.todo)

\* Mutant of Call: the guard lasts for one call only.
CallDropsGuard ==
    /\ ~Idle /\ req.todo # <<>>
    /\ Allowed(node, caller, Step)
    /\ node' = Applied(node, Step)
    /\ req' = [req EXCEPT !.todo = Tail(@)]
    /\ writer' = (writer \/ (Step.call = "open" /\ Step.keep /\ "w" \in Step.access))
    /\ caller' = self
    /\ UNCHANGED <<kind, readonly, self, before>>

\* The next call or statement of the request, which commits.  The fd of the
\* truncating open in setattr is closed again at once.
Call ==
    /\ ~Idle /\ req.todo # <<>>
    /\ Allowed(node, caller, Step)
    /\ node' = Applied(node, Step)
    /\ req' = [req EXCEPT !.todo = Tail(@)]
    /\ writer' = (writer \/ (Step.call = "open" /\ Step.keep /\ "w" \in Step.access))
    /\ UNCHANGED <<kind, readonly, self, caller, before>>

\* Every call has succeeded; the reply is Ok.
Done ==
    /\ ~Idle /\ req.todo = <<>>
    /\ Ends

\* Mutant of Denied: the calls behind the refused one are made all the same.
DeniedGoesOn ==
    /\ ~Idle /\ req.todo # <<>>
    /\ ~Allowed(node, caller, Step)
    /\ req' = [req EXCEPT !.todo = Tail(@)]
    /\ UNCHANGED <<kind, node, writer, readonly, self, caller, before>>

\* A call is refused: the rest is left, the reply is its error.
Denied ==
    /\ ~Idle /\ req.todo # <<>>
    /\ ~Allowed(node, caller, Step)
    /\ Ends

\* The statement of the call fails: the same, without a reason in the node.
StatementFails ==
    /\ ~Idle /\ req.todo # <<>>
    /\ Ends

\* write_fd and its commit, by update_size again; the access was checked when
\* the fd was opened.
Write ==
    /\ Idle /\ writer /\ ~readonly
    /\ node' = [node EXCEPT !.empty = FALSE, !.mtime = Now, !.behind = FALSE]
    /\ before' = node'
    /\ UNCHANGED <<kind, writer, readonly, self, caller, req>>

CloseFd ==
    /\ Idle /\ writer
    /\ writer' = FALSE
    /\ UNCHANGED <<kind, node, readonly, self, caller, req, before>>

\* The session ends, anywhere, and another begins.
Reopen ==
    /\ self' \in Sessions /\ caller' = self'
    /\ readonly' \in BOOLEAN
    /\ writer' = FALSE
    /\ req' = NoReq
    /\ before' = node
    /\ UNCHANGED <<kind, node>>

-----------------------------------------------------------------------------
(* The requests there are.                                                 *)

Chmods == [call : {"chmod"}, mode : Modes]
Chowns == [call : {"chown"}, uid : Uids \cup {Unset}, gid : Gids \cup {Unset}]
Utimes == [call : {"utimes"}, mtime : {to_ns(t) : t \in Times} \cup {Now, Unset}]

\* setattr's truncation to 0, or to more.
Truncates == [call : {"open"}, access : {{"r", "w"}}, trunc : {TRUE}, keep : {FALSE}]
                \cup [call : {"resize"}]
Opens == [call : {"open"}, access : {{"r"}, {"w"}, {"r", "w"}}, trunc : BOOLEAN, keep : {TRUE}]

Optional(calls) == {<<>>} \cup {<<s>> : s \in calls}

\* setattr, in the order of the code.  Without uid and gid it calls no chown.
setattr ==
    {m \o o \o t \o z : m \in Optional(Chmods),
                        o \in Optional({s \in Chowns : s.uid # Unset \/ s.gid # Unset}),
                        t \in Optional(Utimes), z \in Optional(Truncates)}

TouchCtime == [call |-> "ctime"]

\* Mutant of setxattr: the time of the change is not recorded.
setxattr_untimed(flags) ==
    {<<s>> : s \in [call : {"setxattr"}, name : XNames, value : Values, flags : flags]}

setxattr(flags) ==
    {<<s, TouchCtime>> : s \in [call : {"setxattr"}, name : XNames, value : Values,
                                flags : flags]}
removexattr == {<<s, TouchCtime>> : s \in [call : {"removexattr"}, name : XNames]}

\* The adapter passes no flags to setxattr, whatever the kernel's were.
FuseCalls == setattr \cup setxattr({{}}) \cup removexattr \cup {<<s>> : s \in Opens}

LibCalls ==
    {<<s>> : s \in Chmods \cup Chowns \cup [call : {"utimes"}, mtime : Times \cup {Unset}]
                                     \cup Opens}
        \cup setxattr(SUBSET {"CREATE", "REPLACE"}) \cup removexattr

Next ==
    \/ \E calls \in LibCalls : LibRequest(calls)
    \/ \E who \in Users, calls \in FuseCalls : FuseRequest(who, calls)
    \/ Call \/ Done \/ Denied \/ StatementFails
    \/ Write \/ CloseFd \/ Reopen

Spec == Init /\ [][Next]_vars

-----------------------------------------------------------------------------
(* Properties.                                                             *)

\* What step s asked for is so in attributes a; of the time only if no
\* truncation came behind (cut), which leaves its own.
InForce(a, s, cut) ==
    CASE s.call = "chmod" -> a.mode = s.mode
      [] s.call = "chown" -> a.uid = Given(s.uid, a.uid) /\ a.gid = Given(s.gid, a.gid)
      [] s.call = "utimes" -> a.mtime = IF cut THEN Now ELSE Given(s.mtime, a.mtime)
      [] s.call = "open" -> s.trunc => a.empty
      [] s.call = "setxattr" -> a.xattrs[s.name] = s.value
      [] s.call = "removexattr" -> a.xattrs[s.name] = Unset
      [] s.call = "ctime" -> ~a.behind
      [] s.call = "resize" -> FALSE

\* How many calls of the request have been made.
Made == Len(req.asked) - Len(req.todo)

\* One of the first m calls of the request truncates, and comes behind call k.
CutAfter(k, m) == \E j \in (k + 1)..m : Truncating(req.asked[j])

\* A request that reports success has done all it was asked, and of its calls
\* one alone undoes another: the truncation of a setattr puts the clock's time
\* in the place of the mtime asked for.  And while the request runs, or after
\* it has failed, what shows of a call shows with everything asked before it
\* in force: a setattr never truncates a file whose chmod was refused.
AppliedInOrder ==
    [][/\ Done => \A k \in DOMAIN req.asked :
                     InForce(node, req.asked[k], CutAfter(k, Len(req.asked)))
       /\ node' # node /\ ~Idle =>
             \A k \in 1..Made : /\ InForce(node, req.asked[k], CutAfter(k, Made))
                               /\ InForce(node', req.asked[k], CutAfter(k, Made + 1))]_vars

\* A request made up of calls that the node allowed when it began is refused
\* half way for one reason only: its own chmod took reading or writing from
\* its owner, and the truncation behind it is checked against the new mode.
RefusedMidwayByOwnMode ==
    [][Denied /\ (\A k \in DOMAIN req.asked : Allowed(before, req.who, req.asked[k]))
       => /\ Step.call = "open"
          /\ \E k \in DOMAIN req.asked :
                /\ req.asked[k].call = "chmod"
                /\ ~({"r", "w"} \subseteq req.asked[k].mode["owner"])]_vars

\* Whoever asks, and whatever was asked before: mode and group change at the
\* request of root or the owner only, mtime too or by a truncation of one with
\* the access that its open asks for, and the owner at the request of root.  A
\* trusted xattr is set at the request of root, but gone at that of anyone who
\* may write: removexattr does not look at the name, although plan.md, edge
\* case 27, has it that "`trusted.*` requires root".  The identity a callback
\* ran under never outlives it.
OnlyOwnerChanges ==
    [][~Idle =>
         /\ <<node.mode, node.gid>>' # <<node.mode, node.gid>> => OwnerOrRoot(before, req.who)
         /\ node.mtime' # node.mtime =>
               \/ OwnerOrRoot(before, req.who)
               \/ /\ Truncating(Step) /\ node'.mtime = Now
                  /\ check_access(before, req.who, Step.access)
         /\ node.uid' # node.uid => req.who.uid = 0
         /\ \A x \in Trusted : node.xattrs'[x] # node.xattrs[x] =>
               IF node.xattrs'[x] = Unset THEN check_access(before, req.who, {"w"})
                                          ELSE req.who.uid = 0]_vars

\* An xattr is newer than ctime, between requests, only after a session ended
\* or a statement failed between the two commits of setxattr or removexattr.
CtimeKeepsUp ==
    [][~Idle /\ Idle' /\ node.behind /\ ~before.behind => StatementFails \/ Reopen]_vars
=============================================================================
