---------------------------- MODULE AttrsProofs ----------------------------
(***************************************************************************)
(* Proofs about Attrs, for every set of users, modes, times and xattrs:    *)
(* what a request can have done to the node when it is half way, and whom  *)
(* it did it for.                                                          *)
(***************************************************************************)
EXTENDS Attrs, TLAPS

-----------------------------------------------------------------------------
(* Calls.                                                                  *)

XCalls == {"setxattr", "removexattr"}
CallNames == {"chmod", "chown", "utimes", "open", "resize", "ctime"} \cup XCalls

\* What is known of a call s by its name.
IsCall(s) ==
    /\ s.call \in CallNames
    /\ s.call = "chmod" => s.mode \in Modes
    /\ s.call = "chown" => s.uid \in Int /\ s.gid \in Int
    /\ s.call = "utimes" => s.mtime \in Int
    /\ s.call = "open" => s.access \subseteq {"r", "w"} /\ s.trunc \in BOOLEAN
    /\ s.call \in XCalls => s.name \in XNames
    /\ s.call = "setxattr" => s.value \in Values

LibUtimes == [call : {"utimes"}, mtime : Times \cup {Unset}]
XSets == [call : {"setxattr"}, name : XNames, value : Values,
          flags : SUBSET {"CREATE", "REPLACE"}]
XRemoves == [call : {"removexattr"}, name : XNames]
AttrCalls == Chmods \cup Chowns \cup Utimes \cup LibUtimes
Steps == AttrCalls \cup Truncates \cup Opens \cup XSets \cup XRemoves \cup {TouchCtime}

LEMMA CallsTyped ==
    /\ \A s \in Chmods : IsCall(s) /\ s.call = "chmod"
    /\ \A s \in Chowns : IsCall(s) /\ s.call = "chown"
    /\ \A s \in Utimes \cup LibUtimes : IsCall(s) /\ s.call = "utimes"
    /\ \A s \in Truncates : IsCall(s) /\ s.call \in {"open", "resize"}
    /\ \A s \in Opens : IsCall(s) /\ s.call = "open"
    /\ \A s \in XSets : IsCall(s) /\ s.call = "setxattr"
    /\ \A s \in XRemoves : IsCall(s) /\ s.call = "removexattr"
    /\ IsCall(TouchCtime) /\ TouchCtime.call = "ctime"
<1>1. \A s \in Chmods : IsCall(s) /\ s.call = "chmod"
  BY DEF Chmods, IsCall, CallNames, XCalls
<1>2. \A s \in Chowns : IsCall(s) /\ s.call = "chown"
  <2>1. Uids \cup {Unset} \subseteq Int /\ Gids \cup {Unset} \subseteq Int
    BY UsersAssumption DEF Uids, Gids, Unset
  <2>. QED  BY <2>1 DEF Chowns, IsCall, CallNames, XCalls
<1>3. \A s \in Utimes : IsCall(s) /\ s.call = "utimes"
  <2>1. {to_ns(t) : t \in Times} \cup {Now, Unset} \subseteq Int
    BY TimesAssumption DEF to_ns, Unset
  <2>. QED  BY <2>1 DEF Utimes, IsCall, CallNames, XCalls
<1>4. \A s \in LibUtimes : IsCall(s) /\ s.call = "utimes"
  <2>1. Times \cup {Unset} \subseteq Int
    BY TimesAssumption DEF Unset
  <2>. QED  BY <2>1 DEF LibUtimes, IsCall, CallNames, XCalls
<1>5. \A s \in Truncates : IsCall(s) /\ s.call \in {"open", "resize"}
  BY DEF Truncates, IsCall, CallNames, XCalls
<1>6. \A s \in Opens : IsCall(s) /\ s.call = "open"
  BY DEF Opens, IsCall, CallNames, XCalls
<1>7. \A s \in XSets : IsCall(s) /\ s.call = "setxattr"
  BY DEF XSets, IsCall, CallNames, XCalls
<1>8. \A s \in XRemoves : IsCall(s) /\ s.call = "removexattr"
  BY DEF XRemoves, IsCall, CallNames, XCalls
<1>9. IsCall(TouchCtime) /\ TouchCtime.call = "ctime"
  BY DEF TouchCtime, IsCall, CallNames, XCalls
<1>. QED  BY <1>1, <1>2, <1>3, <1>4, <1>5, <1>6, <1>7, <1>8, <1>9

LEMMA StepsTyped == \A s \in Steps : IsCall(s)
BY CallsTyped DEF Steps, AttrCalls

\* A request: no call twice, and a change of an xattr is followed by that of
\* ctime and by nothing else.
IsRequest(cs) ==
    /\ cs \in Seq(Steps)
    /\ \A j, k \in 1..Len(cs) : cs[j].call = cs[k].call => j = k
    /\ \A k \in 1..Len(cs) : cs[k].call \in XCalls => k = 1 /\ Len(cs) = 2 /\ cs[2] = TouchCtime
    /\ \A k \in 1..Len(cs) : cs[k].call = "ctime" => k = 2 /\ cs[1].call \in XCalls

LEMMA OneCall ==
    ASSUME NEW s \in Steps, s.call \notin XCalls \cup {"ctime"}
    PROVE  IsRequest(<<s>>)
<1>1. <<s>> \in Seq(Steps) /\ Len(<<s>>) = 1 /\ <<s>>[1] = s
  OBVIOUS
<1>2. \A k \in 1..1 : k = 1
  OBVIOUS
<1>. QED  BY <1>1, <1>2 DEF IsRequest

LEMMA TwoCalls ==
    ASSUME NEW s \in Steps, s.call \in XCalls
    PROVE  IsRequest(<<s, TouchCtime>>)
<1>1. /\ <<s, TouchCtime>> \in Seq(Steps) /\ Len(<<s, TouchCtime>>) = 2
      /\ <<s, TouchCtime>>[1] = s /\ <<s, TouchCtime>>[2] = TouchCtime
  BY DEF Steps
<1>2. \A k \in 1..2 : k = 1 \/ k = 2
  OBVIOUS
<1>3. TouchCtime.call = "ctime" /\ s.call # "ctime"
  BY CallsTyped DEF XCalls
<1> DEFINE cs == <<s, TouchCtime>>
<1> HIDE DEF cs
<1>4. cs \in Seq(Steps) /\ Len(cs) = 2 /\ cs[1] = s /\ cs[2] = TouchCtime
  BY <1>1 DEF cs
<1>5. IsRequest(cs)
  BY <1>2, <1>3, <1>4 DEF IsRequest, XCalls
<1>. QED  BY <1>5 DEF cs

\* The place of a call in setattr.
Rank(c) == CASE c = "chmod" -> 1 [] c = "chown" -> 2 [] c = "utimes" -> 3 [] OTHER -> 4

Ranked(cs, r) ==
    /\ cs \in Seq(Steps)
    /\ \A k \in 1..Len(cs) : cs[k].call \notin XCalls \cup {"ctime"} /\ Rank(cs[k].call) <= r
    /\ \A j, k \in 1..Len(cs) : j < k => Rank(cs[j].call) < Rank(cs[k].call)

LEMMA RankedNext ==
    ASSUME NEW cs, NEW r \in 0..3, NEW S \in SUBSET Steps, Ranked(cs, r),
           \A s \in S : s.call \notin XCalls \cup {"ctime"} /\ Rank(s.call) = r + 1,
           NEW x \in Optional(S)
    PROVE  Ranked(cs \o x, r + 1)
<1>1. cs \in Seq(Steps) /\ Len(cs) \in Nat
  BY DEF Ranked
<1>2. CASE x = <<>>
  <2>1. cs \o x = cs
    BY <1>1, <1>2
  <2>2. \A k \in 1..Len(cs) : Rank(cs[k].call) \in Int
    BY DEF Rank
  <2>3. \A k \in 1..Len(cs) : Rank(cs[k].call) <= r + 1
    BY <2>2 DEF Ranked
  <2>. QED  BY <2>1, <2>3 DEF Ranked
<1>3. CASE x # <<>>
  <2>1. PICK s \in S : x = <<s>>
    BY <1>3 DEF Optional
  <2> DEFINE ds == cs \o x
  <2>2. /\ ds \in Seq(Steps) /\ Len(ds) = Len(cs) + 1
        /\ \A k \in 1..Len(cs) : ds[k] = cs[k]
        /\ ds[Len(cs) + 1] = s
    BY <1>1, <2>1
  <2> HIDE DEF ds
  <2>3. \A k \in 1..(Len(cs) + 1) : k \in 1..Len(cs) \/ k = Len(cs) + 1
    BY <1>1
  <2>4. \A k \in 1..Len(cs) : Rank(cs[k].call) \in Int /\ Rank(cs[k].call) <= r
    BY DEF Ranked, Rank
  <2>5. Rank(s.call) = r + 1
    OBVIOUS
  <2>6. \A k \in 1..Len(ds) : ds[k].call \notin XCalls \cup {"ctime"} /\ Rank(ds[k].call) <= r + 1
    BY <2>2, <2>3, <2>4, <2>5 DEF Ranked
  <2>7. ASSUME NEW j \in 1..Len(ds), NEW k \in 1..Len(ds), j < k
        PROVE  Rank(ds[j].call) < Rank(ds[k].call)
    <3>1. j \in 1..Len(cs)
      BY <1>1, <2>2, <2>7
    <3>2. CASE k \in 1..Len(cs)
      BY <2>2, <2>7, <3>1, <3>2 DEF Ranked
    <3>3. CASE k = Len(cs) + 1
      BY <2>2, <2>4, <2>5, <3>1, <3>3, SMTT(60)
    <3>. QED  BY <2>2, <2>3, <3>2, <3>3
  <2>8. Ranked(ds, r + 1)
    BY <2>2, <2>6, <2>7 DEF Ranked
  <2>. QED  BY <2>8 DEF ds
<1>. QED  BY <1>2, <1>3

LEMMA RankedIsRequest ==
    ASSUME NEW cs, Ranked(cs, 4)
    PROVE  IsRequest(cs)
<1>1. cs \in Seq(Steps) /\ Len(cs) \in Nat
  BY DEF Ranked
<1>2. ASSUME NEW j \in 1..Len(cs), NEW k \in 1..Len(cs), cs[j].call = cs[k].call
      PROVE  j = k
  <2>1. Rank(cs[j].call) = Rank(cs[k].call) /\ Rank(cs[j].call) \in Int
    BY <1>2 DEF Rank
  <2>2. ~(j < k) /\ ~(k < j)
    BY <2>1 DEF Ranked
  <2>. QED  BY <1>1, <2>2
<1>. QED  BY <1>1, <1>2 DEF Ranked, IsRequest

LEMMA Requests == \A cs \in LibCalls \cup FuseCalls : IsRequest(cs)
<1>1. ASSUME NEW cs \in setattr PROVE IsRequest(cs)
  <2> DEFINE O == {s \in Chowns : s.uid # Unset \/ s.gid # Unset}
  <2>0. setattr = {m \o o \o t \o z : m \in Optional(Chmods), o \in Optional(O),
                                       t \in Optional(Utimes), z \in Optional(Truncates)}
    BY DEF setattr
  <2>1. PICK m \in Optional(Chmods), o \in Optional(O), t \in Optional(Utimes),
             z \in Optional(Truncates) : cs = m \o o \o t \o z
    <3> HIDE DEF O
    <3>. QED  BY <2>0
  <2>2. /\ \A s \in Chmods : s.call = "chmod" /\ s \in Steps
        /\ \A s \in O : s.call = "chown" /\ s \in Steps
        /\ \A s \in Utimes : s.call = "utimes" /\ s \in Steps
        /\ \A s \in Truncates : s.call \in {"open", "resize"} /\ s \in Steps
    BY CallsTyped DEF Steps, AttrCalls
  <2> HIDE DEF O
  <2>3. Ranked(<<>>, 0)
    BY DEF Ranked
  <2>4. Ranked(<<>> \o m, 1)
    <3>1. \A s \in Chmods : s.call \notin XCalls \cup {"ctime"} /\ Rank(s.call) = 0 + 1
      BY <2>2 DEF Rank, XCalls
    <3>2. Chmods \in SUBSET Steps /\ 0 \in 0..3 /\ 0 + 1 = 1
      BY <2>2
    <3>. QED  BY <2>3, <3>1, <3>2, RankedNext
  <2>5. Ranked(m, 1) /\ m \in Seq(Steps)
    <3>1. m = <<>> \/ \E s \in Steps : m = <<s>>
      BY <2>2 DEF Optional
    <3>2. m \in Seq(Steps)
      <4>1. \A s \in Steps : <<s>> \in Seq(Steps)
        OBVIOUS
      <4>2. <<>> \in Seq(Steps)
        OBVIOUS
      <4>. QED  BY <3>1, <4>1, <4>2
    <3>3. <<>> \o m = m
      BY <3>2
    <3>. QED  BY <2>4, <3>2, <3>3
  <2>6. Ranked(m \o o, 2)
    <3>1. \A s \in O : s.call \notin XCalls \cup {"ctime"} /\ Rank(s.call) = 1 + 1
      BY <2>2 DEF Rank, XCalls
    <3>2. O \in SUBSET Steps /\ 1 \in 0..3 /\ 1 + 1 = 2
      BY <2>2
    <3>. QED  BY <2>5, <3>1, <3>2, RankedNext
  <2>7. Ranked(m \o o \o t, 3)
    <3>1. \A s \in Utimes : s.call \notin XCalls \cup {"ctime"} /\ Rank(s.call) = 2 + 1
      BY <2>2 DEF Rank, XCalls
    <3>2. Utimes \in SUBSET Steps /\ 2 \in 0..3 /\ 2 + 1 = 3
      BY <2>2
    <3>. QED  BY <2>6, <3>1, <3>2, RankedNext
  <2>8. Ranked(m \o o \o t \o z, 4)
    <3>1. \A s \in Truncates : s.call \notin XCalls \cup {"ctime"} /\ Rank(s.call) = 3 + 1
      BY <2>2 DEF Rank, XCalls
    <3>2. Truncates \in SUBSET Steps /\ 3 \in 0..3 /\ 3 + 1 = 4
      BY <2>2
    <3>. QED  BY <2>7, <3>1, <3>2, RankedNext
  <2>. QED  BY <2>1, <2>8, RankedIsRequest
<1>2. ASSUME NEW flags \in SUBSET SUBSET {"CREATE", "REPLACE"}, NEW cs \in setxattr(flags)
      PROVE  IsRequest(cs)
  <2>1. PICK s \in [call : {"setxattr"}, name : XNames, value : Values, flags : flags] :
               cs = <<s, TouchCtime>>
    BY DEF setxattr
  <2>2. s \in XSets
    BY DEF XSets
  <2>3. s \in Steps /\ s.call \in XCalls
    BY <2>2, CallsTyped DEF Steps, XCalls
  <2>. QED  BY <2>1, <2>3, TwoCalls
<1>3. ASSUME NEW cs \in removexattr PROVE IsRequest(cs)
  <2>1. PICK s \in XRemoves : cs = <<s, TouchCtime>>
    BY DEF removexattr, XRemoves
  <2>2. s \in Steps /\ s.call \in XCalls
    BY CallsTyped DEF Steps, XCalls
  <2>. QED  BY <2>1, <2>2, TwoCalls
<1>4. ASSUME NEW s \in Chmods \cup Chowns \cup LibUtimes \cup Opens PROVE IsRequest(<<s>>)
  <2>1. s \in Steps /\ s.call \notin XCalls \cup {"ctime"}
    BY CallsTyped DEF Steps, AttrCalls, XCalls
  <2>. QED  BY <2>1, OneCall
<1>5. ASSUME NEW cs \in LibCalls PROVE IsRequest(cs)
  <2>1. SUBSET {"CREATE", "REPLACE"} \in SUBSET SUBSET {"CREATE", "REPLACE"}
    OBVIOUS
  <2>. QED  BY <1>2, <1>3, <1>4, <2>1 DEF LibCalls, LibUtimes
<1>6. ASSUME NEW cs \in FuseCalls PROVE IsRequest(cs)
  <2>1. {{}} \in SUBSET SUBSET {"CREATE", "REPLACE"}
    OBVIOUS
  <2>. QED  BY <1>1, <1>2, <1>3, <1>4, <2>1 DEF FuseCalls
<1>. QED  BY <1>5, <1>6

-----------------------------------------------------------------------------
(* What a call does to the node.                                           *)

Nodes == [mode : Modes, uid : Int, gid : Int, mtime : Int, empty : BOOLEAN,
          xattrs : [XNames -> Values \cup {Unset}], behind : BOOLEAN]

LEMMA GivenInt == ASSUME NEW x \in Int, NEW y \in Int PROVE Given(x, y) \in Int
BY DEF Given

\* b is the node after call s on node a, field by field.
Outcome(a, s, b) ==
    /\ b \in Nodes
    /\ b.mode = IF s.call = "chmod" THEN s.mode ELSE a.mode
    /\ b.uid = IF s.call = "chown" THEN Given(s.uid, a.uid) ELSE a.uid
    /\ b.gid = IF s.call = "chown" THEN Given(s.gid, a.gid) ELSE a.gid
    /\ b.mtime = IF s.call = "utimes" THEN Given(s.mtime, a.mtime)
                 ELSE IF Truncating(s) THEN Now ELSE a.mtime
    /\ b.empty = IF Truncating(s) THEN TRUE ELSE a.empty
    /\ \A x \in XNames :
          b.xattrs[x] = IF s.call \in XCalls /\ x = s.name
                        THEN IF s.call = "setxattr" THEN s.value ELSE Unset
                        ELSE a.xattrs[x]
    /\ b.behind = IF s.call \in XCalls THEN TRUE
                  ELSE IF s.call = "open" /\ ~s.trunc THEN a.behind
                  ELSE FALSE

LEMMA Effects ==
    ASSUME NEW a \in Nodes, NEW s, IsCall(s), s.call # "resize"
    PROVE  Outcome(a, s, Applied(a, s))
<1>1. CASE s.call = "chmod"
  <2>1. Applied(a, s) = [a EXCEPT !.mode = s.mode, !.behind = FALSE] /\ s.mode \in Modes
    BY <1>1 DEF Applied, IsCall
  <2>. QED  BY <1>1, <2>1 DEF Nodes, XCalls, Truncating, Outcome
<1>2. CASE s.call = "chown"
  <2>1. /\ Applied(a, s) = [a EXCEPT !.uid = Given(s.uid, @), !.gid = Given(s.gid, @),
                                     !.behind = FALSE]
        /\ s.uid \in Int /\ s.gid \in Int
    BY <1>2 DEF Applied, IsCall
  <2>2. Given(s.uid, a.uid) \in Int /\ Given(s.gid, a.gid) \in Int
    BY <2>1, GivenInt DEF Nodes
  <2>. QED  BY <1>2, <2>1, <2>2 DEF Nodes, XCalls, Truncating, Outcome
<1>3. CASE s.call = "utimes"
  <2>1. /\ Applied(a, s) = [a EXCEPT !.mtime = Given(s.mtime, @), !.behind = FALSE]
        /\ s.mtime \in Int
    BY <1>3 DEF Applied, IsCall
  <2>2. Given(s.mtime, a.mtime) \in Int
    BY <2>1, GivenInt DEF Nodes
  <2>. QED  BY <1>3, <2>1, <2>2 DEF Nodes, XCalls, Truncating, Outcome
<1>4. CASE s.call = "open"
  <2>1. CASE s.trunc
    <3>1. Applied(a, s) = [a EXCEPT !.empty = TRUE, !.mtime = Now, !.behind = FALSE]
      BY <1>4, <2>1 DEF Applied, Truncating
    <3>2. Now \in Int /\ Truncating(s)
      BY <1>4, <2>1, TimesAssumption DEF Truncating
    <3>3. /\ Applied(a, s) \in Nodes
          /\ Applied(a, s).mode = a.mode /\ Applied(a, s).uid = a.uid
          /\ Applied(a, s).gid = a.gid /\ Applied(a, s).mtime = Now
          /\ Applied(a, s).empty = TRUE /\ Applied(a, s).xattrs = a.xattrs
          /\ Applied(a, s).behind = FALSE
      BY <3>1, <3>2 DEF Nodes
    <3>. QED  BY <1>4, <2>1, <3>2, <3>3 DEF XCalls, Outcome
  <2>2. CASE ~s.trunc
    <3>1. Applied(a, s) = a /\ ~Truncating(s)
      BY <1>4, <2>2 DEF Applied, Truncating
    <3>. QED  BY <1>4, <2>2, <3>1 DEF XCalls, Outcome
  <2>. QED  BY <1>4, <2>1, <2>2 DEF IsCall
<1>5. CASE s.call = "setxattr"
  <2> DEFINE X == [a.xattrs EXCEPT ![s.name] = s.value]
  <2>1. /\ Applied(a, s) = [a EXCEPT !.xattrs[s.name] = s.value, !.behind = TRUE]
        /\ s.name \in XNames /\ s.value \in Values
    BY <1>5 DEF Applied, IsCall, XCalls
  <2>2. /\ X \in [XNames -> Values \cup {Unset}]
        /\ \A x \in XNames : X[x] = IF x = s.name THEN s.value ELSE a.xattrs[x]
    BY <2>1 DEF Nodes
  <2>3. Applied(a, s) = [a EXCEPT !.xattrs = X, !.behind = TRUE]
    BY <2>1
  <2> HIDE DEF X
  <2>4. /\ Applied(a, s) \in Nodes
        /\ Applied(a, s).mode = a.mode /\ Applied(a, s).uid = a.uid /\ Applied(a, s).gid = a.gid
        /\ Applied(a, s).mtime = a.mtime /\ Applied(a, s).empty = a.empty
        /\ Applied(a, s).xattrs = X /\ Applied(a, s).behind = TRUE
    BY <2>2, <2>3 DEF Nodes
  <2>. QED  BY <1>5, <2>2, <2>4 DEF XCalls, Truncating, Outcome
<1>6. CASE s.call = "removexattr"
  <2> DEFINE X == [a.xattrs EXCEPT ![s.name] = Unset]
  <2>1. /\ Applied(a, s) = [a EXCEPT !.xattrs[s.name] = Unset, !.behind = TRUE]
        /\ s.name \in XNames
    BY <1>6 DEF Applied, IsCall, XCalls
  <2>2. /\ X \in [XNames -> Values \cup {Unset}]
        /\ \A x \in XNames : X[x] = IF x = s.name THEN Unset ELSE a.xattrs[x]
    BY <2>1 DEF Nodes
  <2>3. Applied(a, s) = [a EXCEPT !.xattrs = X, !.behind = TRUE]
    BY <2>1
  <2> HIDE DEF X
  <2>4. /\ Applied(a, s) \in Nodes
        /\ Applied(a, s).mode = a.mode /\ Applied(a, s).uid = a.uid /\ Applied(a, s).gid = a.gid
        /\ Applied(a, s).mtime = a.mtime /\ Applied(a, s).empty = a.empty
        /\ Applied(a, s).xattrs = X /\ Applied(a, s).behind = TRUE
    BY <2>2, <2>3 DEF Nodes
  <2>. QED  BY <1>6, <2>2, <2>4 DEF XCalls, Truncating, Outcome
<1>7. CASE s.call = "ctime"
  <2>1. Applied(a, s) = [a EXCEPT !.behind = FALSE]
    BY <1>7 DEF Applied
  <2>. QED  BY <1>7, <2>1 DEF Nodes, XCalls, Truncating, Outcome
<1>. QED  BY <1>1, <1>2, <1>3, <1>4, <1>5, <1>6, <1>7 DEF IsCall, CallNames, XCalls

\* The same, for two fields.
LEMMA EffectOnMtime ==
    ASSUME NEW a \in Nodes, NEW s, IsCall(s), s.call # "resize"
    PROVE  Applied(a, s).mtime = IF s.call = "utimes" THEN Given(s.mtime, a.mtime)
                                 ELSE IF Truncating(s) THEN Now ELSE a.mtime
<1>1. Outcome(a, s, Applied(a, s))
  BY Effects
<1>. QED  BY <1>1 DEF Outcome

LEMMA EffectOnXattrs ==
    ASSUME NEW a \in Nodes, NEW s, IsCall(s), s.call # "resize"
    PROVE  \A x \in XNames :
              Applied(a, s).xattrs[x] = IF s.call \in XCalls /\ x = s.name
                                        THEN IF s.call = "setxattr" THEN s.value ELSE Unset
                                        ELSE a.xattrs[x]
<1>1. Outcome(a, s, Applied(a, s))
  BY Effects
<1>. QED  BY <1>1 DEF Outcome

\* What the checks of a call say, field by field.
LEMMA Checks ==
    ASSUME NEW a, NEW c, NEW s, IsCall(s), Allowed(a, c, s)
    PROVE  /\ s.call # "resize"
           /\ readonly => s.call = "open" /\ ~s.trunc
           /\ s.call \in {"chmod", "utimes"} => OwnerOrRoot(a, c)
           /\ s.call = "chown" => chown_ok(a, c, s)
           /\ s.call = "open" => open_ok(a, c, s)
           /\ s.call = "setxattr" => setxattr_ok(a, c, s)
           /\ s.call = "removexattr" => removexattr_ok(a, c, s)
<1>1. s.call # "resize"
  BY DEF Allowed
<1>2. s.call = "chmod" => OwnerOrRoot(a, c)
  BY DEF Allowed, chmod_ok
<1>3. s.call = "utimes" => OwnerOrRoot(a, c)
  BY DEF Allowed, utimes_ok
<1>4. s.call = "chown" => chown_ok(a, c, s)
  BY DEF Allowed
<1>5. s.call = "open" => open_ok(a, c, s)
  BY DEF Allowed
<1>6. s.call = "setxattr" => setxattr_ok(a, c, s)
  BY DEF Allowed
<1>7. readonly => s.call = "open" /\ ~s.trunc
  BY DEF Allowed
<1>8. s.call = "removexattr" => removexattr_ok(a, c, s)
  BY DEF Allowed
<1>. QED  BY <1>1, <1>2, <1>3, <1>4, <1>5, <1>6, <1>7, <1>8

\* What was in force stays so when a call with another name is made, unless
\* it is ctime and the call changes an xattr; a truncation is taken note of.
LEMMA StaysInForce ==
    ASSUME NEW a \in Nodes, NEW s, IsCall(s), s.call # "resize", NEW t, IsCall(t),
           t.call # s.call, NEW cut \in BOOLEAN, InForce(a, t, cut), t.call = "ctime" => s.call \notin XCalls,
           s.call \in XCalls => t.call \notin XCalls
    PROVE  InForce(Applied(a, s), t, cut \/ Truncating(s))
<1>0. Outcome(a, s, Applied(a, s))
  BY Effects
<1>1. CASE t.call = "chmod"
  <2>1. a.mode = t.mode
    BY <1>1 DEF InForce
  <2>2. Applied(a, s).mode = a.mode
    BY <1>1, <1>0 DEF Outcome
  <2>. QED  BY <1>1, <2>1, <2>2 DEF InForce
<1>2. CASE t.call = "chown"
  <2>1. a.uid = Given(t.uid, a.uid) /\ a.gid = Given(t.gid, a.gid)
    BY <1>2 DEF InForce
  <2>2. Applied(a, s).uid = a.uid /\ Applied(a, s).gid = a.gid
    BY <1>2, <1>0 DEF Outcome
  <2>. QED  BY <1>2, <2>1, <2>2 DEF InForce
<1>3. CASE t.call = "utimes"
  <2>1. a.mtime = IF cut THEN Now ELSE Given(t.mtime, a.mtime)
    BY <1>3 DEF InForce
  <2>2. Applied(a, s).mtime = IF Truncating(s) THEN Now ELSE a.mtime
    BY <1>3, EffectOnMtime
  <2>3. CASE Truncating(s)
    BY <1>3, <2>2, <2>3 DEF InForce
  <2>4. CASE ~Truncating(s)
    <3>1. Applied(a, s).mtime = a.mtime
      BY <2>2, <2>4
    <3>. QED  BY <1>3, <2>1, <2>4, <3>1 DEF InForce
  <2>. QED  BY <2>3, <2>4
<1>4. CASE t.call = "open"
  <2>1. t.trunc => a.empty
    BY <1>4 DEF InForce
  <2>2. Applied(a, s).empty = a.empty
    <3>1. ~Truncating(s)
      BY <1>4 DEF Truncating
    <3>. QED  BY <3>1, <1>0 DEF Outcome
  <2>. QED  BY <1>4, <2>1, <2>2 DEF InForce
<1>5. CASE t.call = "setxattr"
  <2>1. a.xattrs[t.name] = t.value /\ t.name \in XNames /\ s.call \notin XCalls
    BY <1>5 DEF InForce, IsCall, XCalls
  <2>2. Applied(a, s).xattrs[t.name] = a.xattrs[t.name]
    BY <2>1, EffectOnXattrs
  <2>. QED  BY <1>5, <2>1, <2>2 DEF InForce
<1>6. CASE t.call = "removexattr"
  <2>1. a.xattrs[t.name] = Unset /\ t.name \in XNames /\ s.call \notin XCalls
    BY <1>6 DEF InForce, IsCall, XCalls
  <2>2. Applied(a, s).xattrs[t.name] = a.xattrs[t.name]
    BY <2>1, EffectOnXattrs
  <2>. QED  BY <1>6, <2>1, <2>2 DEF InForce
<1>7. CASE t.call = "ctime"
  <2>1. ~a.behind /\ a.behind \in BOOLEAN /\ s.call \notin XCalls
    BY <1>7 DEF InForce, Nodes
  <2>2. ~Applied(a, s).behind
    BY <2>1, <1>0 DEF Outcome
  <2>. QED  BY <1>7, <2>2 DEF InForce
<1>8. t.call # "resize"
  BY DEF InForce
<1>. QED  BY <1>1, <1>2, <1>3, <1>4, <1>5, <1>6, <1>7, <1>8 DEF IsCall, CallNames, XCalls

LEMMA ComesIntoForce ==
    ASSUME NEW a \in Nodes, NEW s, IsCall(s), s.call # "resize"
    PROVE  InForce(Applied(a, s), s, FALSE)
<1>0. Outcome(a, s, Applied(a, s))
  BY Effects
<1>1. CASE s.call = "chmod"
  <2>0. Applied(a, s).mode = IF s.call = "chmod" THEN s.mode ELSE a.mode
    BY <1>0 DEF Outcome
  <2>1. Applied(a, s).mode = s.mode
    BY <1>1, <2>0
  <2>. QED  BY <1>1, <2>1 DEF InForce
<1>2. CASE s.call = "chown"
  <2>0. /\ Applied(a, s).uid = IF s.call = "chown" THEN Given(s.uid, a.uid) ELSE a.uid
        /\ Applied(a, s).gid = IF s.call = "chown" THEN Given(s.gid, a.gid) ELSE a.gid
    BY <1>0 DEF Outcome
  <2>1. Applied(a, s).uid = Given(s.uid, a.uid) /\ Applied(a, s).gid = Given(s.gid, a.gid)
    BY <1>2, <2>0
  <2>. QED  BY <1>2, <2>1 DEF InForce, Given
<1>3. CASE s.call = "utimes"
  <2>1. Applied(a, s).mtime = Given(s.mtime, a.mtime)
    BY <1>3, EffectOnMtime
  <2>. QED  BY <1>3, <2>1 DEF InForce, Given
<1>4. CASE s.call = "open"
  <2>1. s.trunc => Applied(a, s).empty
    BY <1>4, <1>0 DEF Truncating, Outcome
  <2>. QED  BY <1>4, <2>1 DEF InForce
<1>5. CASE s.call = "setxattr"
  <2>1. s.name \in XNames /\ s.call \in XCalls
    BY <1>5 DEF IsCall, XCalls
  <2>2. Applied(a, s).xattrs[s.name] = s.value
    BY <1>5, <2>1, <1>0 DEF Outcome
  <2>. QED  BY <1>5, <2>2 DEF InForce
<1>6. CASE s.call = "removexattr"
  <2>1. s.name \in XNames /\ s.call \in XCalls
    BY <1>6 DEF IsCall, XCalls
  <2>2. Applied(a, s).xattrs[s.name] = Unset
    BY <1>6, <2>1, <1>0 DEF Outcome
  <2>. QED  BY <1>6, <2>2 DEF InForce
<1>7. CASE s.call = "ctime"
  <2>1. ~Applied(a, s).behind
    BY <1>7, <1>0 DEF XCalls, Outcome
  <2>. QED  BY <1>7, <2>1 DEF InForce
<1>. QED  BY <1>1, <1>2, <1>3, <1>4, <1>5, <1>6, <1>7 DEF IsCall, CallNames, XCalls

-----------------------------------------------------------------------------
(* The invariant: what a running request has made of the node so far.      *)

Types ==
    /\ node \in Nodes /\ before \in Nodes /\ readonly \in BOOLEAN
    /\ self \in Sessions
    /\ Idle => caller = self
    /\ req = [who |-> req.who, asked |-> req.asked, todo |-> req.todo]

\* The calls to come are the last of those asked for.
Progress ==
    /\ IsRequest(req.asked)
    /\ req.todo \in Seq(Steps) /\ Len(req.todo) <= Len(req.asked)
    /\ \A k \in 1..Len(req.todo) : req.todo[k] = req.asked[Made + k]

\* Those that were made are in force, and nothing else has changed.
Effect ==
    /\ Made = 0 => node = before
    /\ \A k \in 1..Made : InForce(node, req.asked[k], CutAfter(k, Made))
    /\ node.uid # before.uid => req.who.uid = 0
    /\ node.gid # before.gid => OwnerOrRoot(before, req.who)
    /\ node.mode # before.mode =>
          OwnerOrRoot(before, req.who) /\ \E k \in 1..Made : req.asked[k].call = "chmod"
    /\ node.behind /\ ~before.behind => req.todo = <<TouchCtime>> /\ ~readonly

Running == caller = req.who /\ Progress /\ Effect

IInv == Types /\ (~Idle => Running)

\* The call that comes next.
LEMMA NextCall ==
    ASSUME Progress, req.todo # <<>>
    PROVE  /\ Made \in Nat /\ Made + 1 \in 1..Len(req.asked) /\ Len(req.asked) \in Nat
           /\ Step = req.asked[Made + 1] /\ Step \in Steps /\ IsCall(Step)
           /\ Len(Tail(req.todo)) = Len(req.todo) - 1 /\ Tail(req.todo) \in Seq(Steps)
           /\ \A k \in 1..Len(Tail(req.todo)) : Tail(req.todo)[k] = req.asked[Made + 1 + k]
           /\ Step.call \in XCalls => Made = 0 /\ Tail(req.todo) = <<TouchCtime>>
<1>1. /\ req.asked \in Seq(Steps) /\ req.todo \in Seq(Steps) /\ Len(req.asked) \in Nat
      /\ Len(req.todo) \in Nat /\ Len(req.todo) <= Len(req.asked) /\ Len(req.todo) > 0
  BY DEF Progress, IsRequest
<1>2. Made \in Nat /\ Made + 1 \in 1..Len(req.asked) /\ 1 \in 1..Len(req.todo)
  <2> DEFINE asked == Len(req.asked)
             todo == Len(req.todo)
  <2>1. /\ asked \in Nat /\ todo \in Nat /\ todo <= asked /\ todo > 0
        /\ Made = asked - todo
    BY <1>1 DEF Made
  <2> HIDE DEF asked, todo
  <2>2. Made \in Nat /\ Made + 1 \in 1..asked /\ 1 \in 1..todo
    BY <2>1
  <2>. QED  BY <2>2 DEF asked, todo
<1>3. Step = req.asked[Made + 1] /\ Step \in Steps
  <2>1. Step = req.todo[1] /\ Step \in Steps
    BY <1>1, <1>2 DEF Step
  <2>. QED  BY <1>2, <2>1 DEF Progress
<1>4. /\ Len(Tail(req.todo)) = Len(req.todo) - 1 /\ Tail(req.todo) \in Seq(Steps)
      /\ \A k \in 1..Len(Tail(req.todo)) : Tail(req.todo)[k] = req.todo[k + 1]
  BY <1>1
<1>5. ASSUME NEW k \in 1..Len(Tail(req.todo))
      PROVE  Tail(req.todo)[k] = req.asked[Made + 1 + k]
  <2>1. k + 1 \in 1..Len(req.todo) /\ Made + (k + 1) = Made + 1 + k
    BY <1>1, <1>2, <1>4
  <2>. QED  BY <1>4, <2>1 DEF Progress
<1>6. ASSUME Step.call \in XCalls
      PROVE  Made = 0 /\ Tail(req.todo) = <<TouchCtime>>
  <2>1. Made + 1 = 1 /\ Len(req.asked) = 2 /\ req.asked[2] = TouchCtime
    BY <1>2, <1>3, <1>6 DEF Progress, IsRequest
  <2>2. Made = 0 /\ Len(req.todo) = 2
    BY <1>1, <1>2, <2>1 DEF Made
  <2> DEFINE t == Tail(req.todo)
  <2>3. /\ t \in Seq(Steps) /\ Len(t) = Len(req.todo) - 1
        /\ \A k \in 1..Len(t) : t[k] = req.asked[Made + 1 + k]
    BY <1>4, <1>5
  <2> HIDE DEF t
  <2>4. Len(t) = 1
    BY <2>2, <2>3
  <2>5. 1 \in 1..Len(t) /\ Made + 1 + 1 = 2
    BY <2>2, <2>4
  <2>6. t[1] = TouchCtime
    BY <2>1, <2>3, <2>5
  <2>7. t = <<TouchCtime>>
    BY <2>3, <2>4, <2>6
  <2>. QED  BY <2>2, <2>7 DEF t
<1>. QED  BY <1>1, <1>2, <1>3, <1>4, <1>5, <1>6, StepsTyped

\* A call that truncates cuts off what is in front of it, and nothing else
\* changes what is cut off by when.
LEMMA Cuts ==
    ASSUME NEW k \in Nat, NEW m \in Nat
    PROVE  /\ k \in 1..m => (CutAfter(k, m + 1) <=> CutAfter(k, m) \/ Truncating(req.asked[m + 1]))
           /\ ~CutAfter(m + 1, m + 1)
           /\ CutAfter(k, m) \in BOOLEAN
<1>1. ASSUME k \in 1..m
      PROVE  \A j : j \in (k + 1)..(m + 1) <=> j \in (k + 1)..m \/ j = m + 1
  BY <1>1
<1>2. \A j : j \notin (m + 1 + 1)..(m + 1)
  OBVIOUS
<1>. QED  BY <1>1, <1>2 DEF CutAfter

\* Who owns the node after calls of its own request, or is root, did before.
LEMMA OwnerBefore ==
    ASSUME NEW who, node.uid # before.uid => who.uid = 0, OwnerOrRoot(node, who)
    PROVE  OwnerOrRoot(before, who)
BY DEF OwnerOrRoot

\* A call of the running request.
LEMMA CallStep ==
    ASSUME Types, ~Idle, Running, Call
    PROVE  IInv'
<1> DEFINE s == Step
<1>0. /\ node \in Nodes /\ before \in Nodes /\ Progress /\ Effect /\ caller = req.who
      /\ req = [who |-> req.who, asked |-> req.asked, todo |-> req.todo]
  BY DEF Types, Running
<1>1. /\ req.todo # <<>> /\ Allowed(node, req.who, s) /\ node' = Applied(node, s)
      /\ req' = [req EXCEPT !.todo = Tail(@)]
      /\ UNCHANGED <<readonly, self, caller, before>>
  BY <1>0 DEF Call
<1>2. /\ req'.who = req.who /\ req'.asked = req.asked /\ req'.todo = Tail(req.todo)
      /\ req' = [who |-> req'.who, asked |-> req'.asked, todo |-> req'.todo]
  BY <1>0, <1>1
<1>3. /\ Made \in Nat /\ Made + 1 \in 1..Len(req.asked) /\ Len(req.asked) \in Nat
      /\ s = req.asked[Made + 1] /\ IsCall(s)
      /\ Len(Tail(req.todo)) = Len(req.todo) - 1 /\ Tail(req.todo) \in Seq(Steps)
      /\ \A k \in 1..Len(Tail(req.todo)) : Tail(req.todo)[k] = req.asked[Made + 1 + k]
      /\ s.call \in XCalls => Made = 0 /\ Tail(req.todo) = <<TouchCtime>>
  BY <1>0, <1>1, NextCall
<1>4. /\ s.call # "resize"
      /\ readonly => s.call = "open" /\ ~s.trunc
      /\ s.call \in {"chmod", "utimes"} => OwnerOrRoot(node, req.who)
      /\ s.call = "chown" => chown_ok(node, req.who, s)
  BY <1>1, <1>3, Checks
<1>5. Made' = Made + 1
  <2> DEFINE todo == Len(req.todo)
             left == Len(Tail(req.todo))
             asked == Len(req.asked)
  <2>1. todo \in Nat /\ asked \in Nat /\ left = todo - 1 /\ Made = asked - todo
        /\ Made' = asked - left
    BY <1>0, <1>2, <1>3 DEF Progress, Made
  <2> HIDE DEF todo, left, asked
  <2>. QED  BY <2>1
<1> HIDE DEF s
<1>6. /\ node' \in Nodes
      /\ node'.mode = IF s.call = "chmod" THEN s.mode ELSE node.mode
      /\ node'.uid = IF s.call = "chown" THEN Given(s.uid, node.uid) ELSE node.uid
      /\ node'.gid = IF s.call = "chown" THEN Given(s.gid, node.gid) ELSE node.gid
      /\ node'.behind = IF s.call \in XCalls THEN TRUE
                        ELSE IF s.call = "open" /\ ~s.trunc THEN node.behind ELSE FALSE
  <2>1. node' = Applied(node, s) /\ Outcome(node, s, Applied(node, s))
    BY <1>0, <1>1, <1>3, <1>4, Effects
  <2>. QED  BY <2>1 DEF Outcome
<1>7. Progress'
  <2>1. Len(Tail(req.todo)) <= Len(req.asked)
    <3> DEFINE todo == Len(req.todo)
               left == Len(Tail(req.todo))
               asked == Len(req.asked)
    <3>1. todo \in Nat /\ asked \in Nat /\ left = todo - 1 /\ todo <= asked
      BY <1>0, <1>3 DEF Progress
    <3> HIDE DEF todo, left, asked
    <3>2. left <= asked
      BY <3>1
    <3>. QED  BY <3>2 DEF left, asked
  <2>2. IsRequest(req'.asked)
    BY <1>0, <1>2 DEF Progress
  <2>. QED  BY <1>2, <1>3, <1>5, <2>1, <2>2 DEF Progress
<1>8. ASSUME NEW k \in 1..(Made + 1)
      PROVE  InForce(node', req.asked[k], CutAfter(k, Made + 1))
  <2>1. CASE k = Made + 1
    <3>1. InForce(node', req.asked[k], FALSE)
      BY <1>0, <1>1, <1>3, <1>4, <2>1, ComesIntoForce
    <3>2. CutAfter(k, Made + 1) = FALSE
      BY <1>3, <2>1, Cuts DEF CutAfter
    <3>. QED  BY <3>1, <3>2
  <2>2. CASE k # Made + 1
    <3>1. k \in 1..Made /\ k \in 1..Len(req.asked)
      BY <1>3, <2>2
    <3>2. InForce(node, req.asked[k], CutAfter(k, Made)) /\ IsCall(req.asked[k])
      <4>1. req.asked[k] \in Steps
        BY <1>0, <3>1 DEF Progress, IsRequest
      <4>. QED  BY <1>0, <3>1, <4>1, StepsTyped DEF Effect
    <3>3. req.asked[k].call # s.call
      BY <1>0, <1>3, <2>2, <3>1 DEF Progress, IsRequest
    <3>4. s.call \notin XCalls
      BY <1>3, <3>1
    <3>5. /\ CutAfter(k, Made) \in BOOLEAN
          /\ CutAfter(k, Made + 1) = (CutAfter(k, Made) \/ Truncating(s))
      <4>1. k \in Nat /\ Made \in Nat
        BY <1>3, <3>1
      <4>. QED  BY <1>3, <3>1, <4>1, Cuts DEF CutAfter, Truncating
    <3>6. InForce(node', req.asked[k], CutAfter(k, Made) \/ Truncating(s))
      BY <1>0, <1>1, <1>3, <1>4, <3>2, <3>3, <3>4, <3>5, StaysInForce
    <3>. QED  BY <3>5, <3>6
  <2>. QED  BY <2>1, <2>2
<1>9. node.uid # before.uid => req.who.uid = 0
  BY <1>0 DEF Effect
<1>10. node'.uid # before.uid => req.who.uid = 0
  <2>1. CASE s.call = "chown" /\ s.uid # Unset /\ s.uid # node.uid
    BY <1>4, <2>1 DEF chown_ok
  <2>2. CASE ~(s.call = "chown" /\ s.uid # Unset /\ s.uid # node.uid)
    <3>1. node'.uid = node.uid
      BY <1>6, <2>2 DEF Given
    <3>. QED  BY <1>9, <3>1
  <2>. QED  BY <2>1, <2>2
<1>11. node'.gid # before.gid => OwnerOrRoot(before, req.who)
  <2>1. CASE s.call = "chown" /\ s.gid # Unset
    BY <1>4, <1>9, <2>1, OwnerBefore DEF chown_ok
  <2>2. CASE ~(s.call = "chown" /\ s.gid # Unset)
    <3>1. node'.gid = node.gid
      BY <1>6, <2>2 DEF Given
    <3>. QED  BY <1>0, <3>1 DEF Effect
  <2>. QED  BY <2>1, <2>2
<1>12. node'.mode # before.mode =>
          OwnerOrRoot(before, req.who) /\ \E k \in 1..(Made + 1) : req.asked[k].call = "chmod"
  <2>1. CASE s.call = "chmod"
    <3>1. OwnerOrRoot(before, req.who)
      BY <1>4, <1>9, <2>1, OwnerBefore
    <3>2. Made + 1 \in 1..(Made + 1) /\ req.asked[Made + 1].call = "chmod"
      BY <1>3, <2>1
    <3>. QED  BY <3>1, <3>2
  <2>2. CASE s.call # "chmod"
    <3>1. node'.mode = node.mode
      BY <1>6, <2>2
    <3>2. \A k \in 1..Made : k \in 1..(Made + 1)
      BY <1>3
    <3>. QED  BY <1>0, <3>1, <3>2 DEF Effect
  <2>. QED  BY <2>1, <2>2
<1>13. node'.behind /\ ~before.behind => req'.todo = <<TouchCtime>> /\ ~readonly
  <2>1. CASE s.call \in XCalls
    BY <1>2, <1>3, <1>4, <2>1 DEF XCalls
  <2>2. CASE s.call \notin XCalls
    <3> SUFFICES ASSUME node'.behind, ~before.behind PROVE FALSE
      OBVIOUS
    <3>1. s.call = "open" /\ node.behind
      BY <1>6, <2>2
    <3>2. req.todo = <<TouchCtime>>
      BY <1>0, <3>1 DEF Effect
    <3>3. s = TouchCtime
      BY <3>2 DEF s, Step
    <3>. QED  BY <3>1, <3>3, CallsTyped
  <2>. QED  BY <2>1, <2>2
<1>14. Effect'
  <2>1. Made' # 0
    BY <1>3, <1>5
  <2>2. ASSUME NEW k \in 1..Made'
        PROVE  InForce(node', req'.asked[k], CutAfter(k, Made)')
    BY <1>2, <1>5, <1>8, <2>2 DEF CutAfter
  <2>. QED  BY <1>1, <1>2, <1>5, <1>10, <1>11, <1>12, <1>13, <2>1, <2>2
            DEF Effect, OwnerOrRoot
<1>15. ~Idle' => Running'
  BY <1>0, <1>1, <1>2, <1>7, <1>14 DEF Running
<1>16. Types'
  <2>1. ~Idle'
    <3>1. req'.asked = req.asked /\ Len(req.asked) # 0
      BY <1>2, <1>3
    <3>2. NoReq.asked = <<>>
      BY DEF NoReq
    <3>. QED  BY <3>1, <3>2 DEF Idle
  <2>. QED  BY <1>0, <1>1, <1>2, <1>6, <2>1 DEF Types
<1>. QED  BY <1>15, <1>16 DEF IInv

\* The initial states, and every step.
LEMMA InitInv == Init => IInv
<1> SUFFICES ASSUME Init PROVE IInv
  OBVIOUS
<1>1. self.uid \in Int /\ self.gid \in Int
  BY UsersAssumption DEF Init
<1>2. [x \in XNames |-> Unset] \in [XNames -> Values \cup {Unset}]
  OBVIOUS
<1>3. node \in Nodes
  <2> DEFINE X == [x \in XNames |-> Unset]
  <2>1. node \in [mode : Modes, uid : {self.uid}, gid : {self.gid}, mtime : {0},
                  empty : {TRUE}, xattrs : {X}, behind : {FALSE}]
    BY DEF Init
  <2>2. X \in [XNames -> Values \cup {Unset}]
    BY <1>2
  <2> HIDE DEF X
  <2>3. PICK m \in Modes : node = [mode |-> m, uid |-> self.uid, gid |-> self.gid, mtime |-> 0,
                                  empty |-> TRUE, xattrs |-> X, behind |-> FALSE]
    BY <2>1
  <2>. QED  BY <1>1, <2>2, <2>3 DEF Nodes
<1>4. req = [who |-> req.who, asked |-> req.asked, todo |-> req.todo]
  BY DEF Init, NoReq
<1>5. Idle
  BY DEF Init, Idle
<1>. QED  BY <1>3, <1>4, <1>5 DEF IInv, Types, Init

LEMMA BeginStep ==
    ASSUME IInv, NEW who \in Users, NEW cs \in LibCalls \cup FuseCalls, Begins(who, cs), caller' = who
    PROVE  IInv'
<1>0. Types /\ IsRequest(cs)
  BY Requests DEF IInv
<1>1. /\ req' = [who |-> who, asked |-> cs, todo |-> cs]
      /\ before' = node /\ UNCHANGED <<node, readonly, self>>
  BY DEF Begins
<1>2. req'.who = who /\ req'.asked = cs /\ req'.todo = cs
  BY <1>1
<1>3. cs \in Seq(Steps) /\ Len(cs) \in Nat
  BY <1>0 DEF IsRequest
<1>4. Made' = 0
  BY <1>2, <1>3 DEF Made
<1>5. Progress'
  <2>1. \A k \in 1..Len(cs) : cs[k] = cs[0 + k]
    BY <1>3
  <2>2. IsRequest(req'.asked)
    BY <1>0, <1>2
  <2>. QED  BY <1>2, <1>3, <1>4, <2>1, <2>2 DEF Progress
<1>6. Effect'
  <2>1. \A k \in 1..0 : FALSE
    OBVIOUS
  <2>. QED  BY <1>1, <1>4, <2>1 DEF Effect
<1>7. Running'
  BY <1>2, <1>5, <1>6 DEF Running
<1>8. Types'
  <2>1. Idle' => caller' = self'
    <3>1. NoReq.who.uid = -1
      BY DEF NoReq, Unset
    <3>2. who.uid # -1
      BY UsersAssumption
    <3>. QED  BY <1>2, <3>1, <3>2 DEF Idle
  <2>. QED  BY <1>0, <1>1, <1>2, <2>1 DEF Types
<1>. QED  BY <1>7, <1>8 DEF IInv

LEMMA EndStep ==
    ASSUME IInv, Ends
    PROVE  IInv'
<1>1. Idle' /\ caller' = self' /\ before' = node /\ UNCHANGED <<node, readonly, self>>
  BY DEF Ends, Idle, Released
<1>2. req' = [who |-> req'.who, asked |-> req'.asked, todo |-> req'.todo]
  BY DEF Ends, NoReq
<1>. QED  BY <1>1, <1>2 DEF IInv, Types

\* The inductive invariant holds throughout.
THEOREM Invariant == Spec => []IInv
<1>1. IInv /\ [Next]_vars => IInv'
  <2> SUFFICES ASSUME IInv, [Next]_vars PROVE IInv'
    OBVIOUS
  <2>0. Types /\ (~Idle => Running)
    BY DEF IInv
  <2>1. ASSUME NEW cs \in LibCalls, LibRequest(cs) PROVE IInv'
    <3>1. Begins(self, cs) /\ caller' = self /\ self \in Users
      BY <2>0, <2>1, UsersAssumption DEF LibRequest, Begins, Types
    <3>. QED  BY <3>1, BeginStep
  <2>2. ASSUME NEW who \in Users, NEW cs \in FuseCalls, FuseRequest(who, cs) PROVE IInv'
    BY <2>2, BeginStep DEF FuseRequest
  <2>3. CASE Call
    BY <2>0, <2>3, CallStep DEF Call
  <2>4. CASE Done \/ Denied \/ StatementFails
    BY <2>4, EndStep DEF Done, Denied, StatementFails
  <2>5. CASE Write
    <3>1. /\ Idle' /\ before' = node' /\ UNCHANGED <<readonly, self, caller, req>> /\ Idle
          /\ node' = [node EXCEPT !.empty = FALSE, !.mtime = Now, !.behind = FALSE]
      BY <2>5 DEF Write, Idle
    <3>2. node' \in Nodes
      <4>1. node \in Nodes /\ Now \in Int
        BY <2>0, TimesAssumption DEF Types
      <4>. QED  BY <3>1, <4>1 DEF Nodes
    <3>. QED  BY <2>0, <3>1, <3>2 DEF IInv, Types
  <2>6. CASE CloseFd
    <3>1. Idle' /\ UNCHANGED <<node, before, readonly, self, caller, req>> /\ Idle
      BY <2>6 DEF CloseFd, Idle
    <3>. QED  BY <2>0, <3>1 DEF IInv, Types
  <2>7. CASE Reopen
    <3>1. Idle' /\ self' \in Sessions /\ caller' = self' /\ readonly' \in BOOLEAN
          /\ before' = node /\ node' = node
      BY <2>7 DEF Reopen, Idle
    <3>2. req' = [who |-> req'.who, asked |-> req'.asked, todo |-> req'.todo]
      BY <2>7 DEF Reopen, NoReq
    <3>. QED  BY <2>0, <3>1, <3>2 DEF IInv, Types
  <2>8. CASE UNCHANGED vars
    BY <2>0, <2>8
    DEF vars, IInv, Types, Idle, Running, Progress, Effect, Made, CutAfter, OwnerOrRoot
  <2>. QED  BY <2>1, <2>2, <2>3, <2>4, <2>5, <2>6, <2>7, <2>8 DEF Next
<1>. QED  BY InitInv, <1>1, PTL DEF Spec

\* The only step of a running request that changes the node.
LEMMA OnlyCallChanges ==
    ASSUME [Next]_vars, ~Idle
    PROVE  node' = node \/ Call
BY DEF Next, vars, LibRequest, FuseRequest, Begins, Done, Denied, StatementFails, Ends,
       Write, CloseFd, Reopen

-----------------------------------------------------------------------------
(* The theorems.                                                           *)

\* Whatever requests, of whomever, came before: mode and group change for root
\* or the owner only, mtime for them or with a truncation that open allows, the
\* owner for root only; a trusted xattr is set for root only and removed for
\* whoever may write.  So it is although the calls of a request are checked one
\* by one against a node that the earlier ones have changed.
THEOREM ChangesAuthorised == Spec => OnlyOwnerChanges
<1>1. ASSUME IInv, [Next]_vars, ~Idle
      PROVE  /\ <<node.mode, node.gid>>' # <<node.mode, node.gid>>
                   => OwnerOrRoot(before, req.who)
             /\ node.mtime' # node.mtime =>
                   \/ OwnerOrRoot(before, req.who)
                   \/ /\ Truncating(Step) /\ node'.mtime = Now
                      /\ check_access(before, req.who, Step.access)
             /\ node.uid' # node.uid => req.who.uid = 0
             /\ \A x \in Trusted : node.xattrs'[x] # node.xattrs[x] =>
                   IF node.xattrs'[x] = Unset THEN check_access(before, req.who, {"w"})
                                              ELSE req.who.uid = 0
  <2>1. CASE node' = node
    BY <2>1
  <2>2. CASE Call
    <3> DEFINE s == Step
    <3>0. node \in Nodes /\ Progress /\ Effect /\ caller = req.who
      BY <1>1 DEF IInv, Types, Running
    <3>1. /\ req.todo # <<>> /\ Allowed(node, req.who, s) /\ node' = Applied(node, s) /\ IsCall(s)
          /\ s.call \in XCalls => Made = 0
      BY <2>2, <3>0, NextCall DEF Call
    <3> HIDE DEF s
    <3>2. /\ s.call # "resize"
          /\ s.call \in {"chmod", "utimes"} => OwnerOrRoot(node, req.who)
          /\ s.call = "chown" => chown_ok(node, req.who, s)
          /\ s.call = "open" => open_ok(node, req.who, s)
          /\ s.call = "setxattr" => setxattr_ok(node, req.who, s)
          /\ s.call = "removexattr" => removexattr_ok(node, req.who, s)
      BY <3>1, Checks
    <3>3. /\ Applied(node, s).mode = IF s.call = "chmod" THEN s.mode ELSE node.mode
          /\ Applied(node, s).uid = IF s.call = "chown" THEN Given(s.uid, node.uid) ELSE node.uid
          /\ Applied(node, s).gid = IF s.call = "chown" THEN Given(s.gid, node.gid) ELSE node.gid
          /\ Applied(node, s).mtime = IF s.call = "utimes" THEN Given(s.mtime, node.mtime)
                                      ELSE IF Truncating(s) THEN Now ELSE node.mtime
          /\ \A x \in XNames :
                Applied(node, s).xattrs[x] = IF s.call \in XCalls /\ x = s.name
                                             THEN IF s.call = "setxattr" THEN s.value ELSE Unset
                                             ELSE node.xattrs[x]
      <4>1. node \in Nodes /\ IsCall(s) /\ s.call # "resize"
        BY <3>0, <3>1, <3>2
      <4>7. Outcome(node, s, Applied(node, s))
        BY <4>1, Effects
      <4>2. Applied(node, s).mode = IF s.call = "chmod" THEN s.mode ELSE node.mode
        BY <4>7 DEF Outcome
      <4>3. Applied(node, s).uid = IF s.call = "chown" THEN Given(s.uid, node.uid) ELSE node.uid
        BY <4>7 DEF Outcome
      <4>4. Applied(node, s).gid = IF s.call = "chown" THEN Given(s.gid, node.gid) ELSE node.gid
        BY <4>7 DEF Outcome
      <4>5. Applied(node, s).mtime = IF s.call = "utimes" THEN Given(s.mtime, node.mtime)
                                     ELSE IF Truncating(s) THEN Now ELSE node.mtime
        BY <4>1, EffectOnMtime
      <4>6. ASSUME NEW x \in XNames
            PROVE  Applied(node, s).xattrs[x] = IF s.call \in XCalls /\ x = s.name
                                                THEN IF s.call = "setxattr" THEN s.value ELSE Unset
                                                ELSE node.xattrs[x]
        BY <4>1, EffectOnXattrs
      <4>. QED  BY <4>2, <4>3, <4>4, <4>5, <4>6
    <3>4. OwnerOrRoot(node, req.who) => OwnerOrRoot(before, req.who)
      BY <3>0, OwnerBefore DEF Effect
    <3>5. ASSUME ~OwnerOrRoot(before, req.who)
          PROVE  node'.mode = node.mode /\ node'.gid = node.gid
      BY <3>1, <3>2, <3>3, <3>4, <3>5 DEF chown_ok, Given
    <3>6. ASSUME node'.uid # node.uid PROVE req.who.uid = 0
      BY <3>1, <3>2, <3>3, <3>6 DEF chown_ok, Given
    <3>7. ASSUME NEW x \in Trusted, node'.xattrs[x] # node.xattrs[x]
          PROVE  IF node'.xattrs[x] = Unset THEN check_access(before, req.who, {"w"})
                                            ELSE req.who.uid = 0
      <4>1. s.call \in XCalls /\ x = s.name /\ node = before
        BY <3>0, <3>1, <3>3, <3>7, XattrAssumption DEF Effect
      <4>2. CASE s.call = "setxattr"
        BY <3>2, <4>1, <4>2 DEF setxattr_ok
      <4>3. CASE s.call = "removexattr"
        <5>1. node'.xattrs[x] = Unset
          BY <3>1, <3>3, <4>1, <4>3, XattrAssumption
        <5>. QED  BY <3>2, <4>1, <4>3, <5>1 DEF removexattr_ok
      <4>. QED  BY <4>1, <4>2, <4>3 DEF XCalls
    <3>8. ASSUME node'.mtime # node.mtime, ~OwnerOrRoot(before, req.who)
          PROVE  /\ Truncating(s) /\ node'.mtime = Now
                 /\ check_access(before, req.who, s.access)
      <4>1. s.call # "utimes"
        BY <3>2, <3>4, <3>8
      <4>2. Truncating(s) /\ node'.mtime = Now
        BY <3>1, <3>3, <3>8, <4>1
      <4>3. check_access(node, req.who, s.access)
        BY <3>2, <4>2 DEF Truncating, open_ok
      <4>4. node.mode = before.mode /\ node.uid = before.uid /\ node.gid = before.gid
        BY <3>0, <3>8 DEF Effect, OwnerOrRoot
      <4>5. check_access(before, req.who, s.access)
        BY <4>3, <4>4 DEF check_access, ClassOf
      <4>. QED  BY <4>2, <4>5
    <3>. QED  BY <3>5, <3>6, <3>7, <3>8 DEF s
  <2>. QED  BY <1>1, <2>1, <2>2, OnlyCallChanges
<1>2. IInv /\ [Next]_vars =>
         [~Idle =>
            /\ <<node.mode, node.gid>>' # <<node.mode, node.gid>>
                  => OwnerOrRoot(before, req.who)
            /\ node.mtime' # node.mtime =>
                  \/ OwnerOrRoot(before, req.who)
                  \/ /\ Truncating(Step) /\ node'.mtime = Now
                     /\ check_access(before, req.who, Step.access)
            /\ node.uid' # node.uid => req.who.uid = 0
            /\ \A x \in Trusted : node.xattrs'[x] # node.xattrs[x] =>
                  IF node.xattrs'[x] = Unset THEN check_access(before, req.who, {"w"})
                                             ELSE req.who.uid = 0]_vars
  BY <1>1
<1>. QED  BY Invariant, <1>2, PTL DEF Spec, OnlyOwnerChanges

\* ctime falls behind the xattrs only where the two commits of setxattr or
\* removexattr were torn apart: the second is never refused.
THEOREM CtimeFollows == Spec => CtimeKeepsUp
<1>1. ASSUME IInv, [Next]_vars, ~Idle, Idle', node.behind, ~before.behind
      PROVE  StatementFails \/ Reopen
  <2>1. req.todo = <<TouchCtime>> /\ ~readonly
    BY <1>1 DEF IInv, Running, Effect
  <2>2. ~Done
    <3>1. <<TouchCtime>> # <<>>
      OBVIOUS
    <3>. QED  BY <2>1, <3>1 DEF Done
  <2>3. ~Denied
    <3>1. Step = TouchCtime
      BY <2>1 DEF Step
    <3>2. Step.call = "ctime"
      BY <3>1, CallsTyped
    <3>3. Allowed(node, caller, Step)
      BY <2>1, <3>2 DEF Allowed
    <3>. QED  BY <3>3 DEF Denied
  <2>4. ~Call
    <3> SUFFICES ASSUME Call PROVE FALSE
      OBVIOUS
    <3>0. Progress /\ req = [who |-> req.who, asked |-> req.asked, todo |-> req.todo]
      BY <1>1 DEF IInv, Types, Running
    <3>1. req'.asked = req.asked
      BY <3>0 DEF Call
    <3>2. Len(req.asked) # 0
      <4>1. req.todo # <<>>
        BY DEF Call
      <4>2. Made \in Nat /\ Made + 1 \in 1..Len(req.asked) /\ Len(req.asked) \in Nat
        BY <3>0, <4>1, NextCall
      <4>. QED  BY <4>2
    <3>3. req'.asked = <<>>
      BY <1>1 DEF Idle, NoReq
    <3>. QED  BY <3>1, <3>2, <3>3
  <2>5. ~ UNCHANGED vars
    BY <1>1 DEF vars, Idle
  <2>. QED  BY <1>1, <2>2, <2>3, <2>4, <2>5
            DEF Next, LibRequest, FuseRequest, Begins, Write, CloseFd
<1>2. IInv /\ [Next]_vars =>
         [~Idle /\ Idle' /\ node.behind /\ ~before.behind => StatementFails \/ Reopen]_vars
  BY <1>1
<1>. QED  BY Invariant, <1>2, PTL DEF Spec, CtimeKeepsUp

\* A request that is over has done everything it was asked for, but for the
\* mtime that its own truncation overwrote; one that was cut short has done a
\* prefix of it, in the order of the code.
THEOREM CallsInOrder == Spec => AppliedInOrder
<1>1. ASSUME IInv, [Next]_vars, Done
      PROVE  \A k \in DOMAIN req.asked :
                InForce(node, req.asked[k], CutAfter(k, Len(req.asked)))
  <2>1. Progress /\ Effect /\ req.todo = <<>>
    BY <1>1 DEF IInv, Running, Done
  <2>2. req.asked \in Seq(Steps) /\ Len(req.asked) \in Nat /\ Len(req.todo) = 0
    BY <2>1 DEF Progress, IsRequest
  <2>3. Made = Len(req.asked) /\ DOMAIN req.asked = 1..Len(req.asked)
    BY <2>2 DEF Made
  <2>. QED  BY <2>1, <2>3 DEF Effect
<1>2. ASSUME IInv, [Next]_vars, node' # node, ~Idle, NEW k \in 1..Made
      PROVE  /\ InForce(node, req.asked[k], CutAfter(k, Made))
             /\ InForce(node', req.asked[k], CutAfter(k, Made + 1))
  <2>0. Types /\ Running /\ Progress /\ Effect
    BY <1>2 DEF IInv, Running
  <2>1. Call
    BY <1>2, OnlyCallChanges
  <2>2. IInv'
    BY <1>2, <2>0, <2>1, CallStep
  <2>3. req.todo # <<>> /\ req' = [req EXCEPT !.todo = Tail(@)]
    BY <2>1 DEF Call
  <2>4. /\ Made \in Nat /\ Len(Tail(req.todo)) = Len(req.todo) - 1
        /\ Len(req.asked) \in Nat /\ Made + 1 \in 1..Len(req.asked)
    BY <2>0, <2>3, NextCall
  <2>5. req'.asked = req.asked /\ req'.todo = Tail(req.todo)
    BY <2>0, <2>3 DEF Types
  <2>6. Made' = Made + 1
    <3> DEFINE todo == Len(req.todo)
               left == Len(Tail(req.todo))
               asked == Len(req.asked)
    <3>1. todo \in Nat /\ asked \in Nat /\ left = todo - 1 /\ Made = asked - todo
          /\ Made' = asked - left
      BY <2>0, <2>4, <2>5 DEF Progress, Made
    <3> HIDE DEF todo, left, asked
    <3>. QED  BY <3>1
  <2>7. ~Idle'
    <3>1. Len(req.asked) # 0
      BY <2>4
    <3>2. NoReq.asked = <<>>
      BY DEF NoReq
    <3>. QED  BY <2>5, <3>1, <3>2 DEF Idle
  <2>8. Effect'
    BY <2>2, <2>7 DEF IInv, Running
  <2>9. k \in 1..(Made + 1)
    BY <2>4
  <2>10. InForce(node', req.asked[k], CutAfter(k, Made + 1))
    BY <2>5, <2>6, <2>8, <2>9 DEF Effect, CutAfter
  <2>. QED  BY <1>2, <2>0, <2>10 DEF Effect
<1>3. IInv /\ [Next]_vars =>
         [/\ Done => \A k \in DOMAIN req.asked :
                        InForce(node, req.asked[k], CutAfter(k, Len(req.asked)))
          /\ node' # node /\ ~Idle =>
                \A k \in 1..Made : /\ InForce(node, req.asked[k], CutAfter(k, Made))
                                  /\ InForce(node', req.asked[k], CutAfter(k, Made + 1))]_vars
  BY <1>1, <1>2
<1>. QED  BY Invariant, <1>3, PTL DEF Spec, AppliedInOrder

\* An open that the node allowed when the request began is refused later only
\* to an owner whose own chmod, in force by now, took the access.
LEMMA OpenRefused ==
    ASSUME IInv, ~Idle, req.todo # <<>>, Step.call = "open",
           open_ok(before, req.who, Step), ~open_ok(node, req.who, Step)
    PROVE  \E k \in DOMAIN req.asked :
              /\ req.asked[k].call = "chmod"
              /\ ~({"r", "w"} \subseteq req.asked[k].mode["owner"])
<1> DEFINE A == Step.access
<1>0. Progress /\ Effect
  BY DEF IInv, Running
<1>1. /\ Made \in Nat /\ Made + 1 \in 1..Len(req.asked) /\ Len(req.asked) \in Nat
      /\ IsCall(Step)
  BY <1>0, NextCall
<1>2. A \subseteq {"r", "w"}
  BY <1>1 DEF IsCall
<1> HIDE DEF A
<1>3. check_access(before, req.who, A) /\ ~check_access(node, req.who, A)
  BY DEF open_ok, A
<1>4. req.who.uid # 0
  BY <1>2, <1>3 DEF check_access
<1>5. A \subseteq before.mode[ClassOf(before, req.who)]
      /\ ~(A \subseteq node.mode[ClassOf(node, req.who)])
  BY <1>3, <1>4 DEF check_access
<1>6. /\ node.uid = before.uid
      /\ node.gid # before.gid => req.who.uid = before.uid
      /\ node.mode # before.mode => req.who.uid = before.uid
      /\ node.mode # before.mode => \E k \in 1..Made : req.asked[k].call = "chmod"
  BY <1>0, <1>4 DEF Effect, OwnerOrRoot
<1>7. ClassOf(node, req.who) = ClassOf(before, req.who)
  BY <1>6 DEF ClassOf
<1>8. node.mode # before.mode
  BY <1>5, <1>7
<1>9. ClassOf(node, req.who) = "owner"
  BY <1>6, <1>8 DEF ClassOf
<1>10. PICK k \in 1..Made : req.asked[k].call = "chmod"
  BY <1>6, <1>8
<1>11. node.mode = req.asked[k].mode
  BY <1>0, <1>10 DEF Effect, InForce
<1>12. ~({"r", "w"} \subseteq req.asked[k].mode["owner"])
  BY <1>2, <1>5, <1>9, <1>11
<1>13. k \in DOMAIN req.asked
  <2>1. req.asked \in Seq(Steps)
    BY <1>0 DEF Progress, IsRequest
  <2>2. k \in 1..Len(req.asked)
    BY <1>1
  <2>. QED  BY <2>1, <2>2
<1>. QED  BY <1>10, <1>12, <1>13

\* No request is refused half way for anything that happened during it but for
\* the mode it set itself.
THEOREM RefusedMidway == Spec => RefusedMidwayByOwnMode
<1>1. ASSUME IInv, [Next]_vars, Denied,
             \A k \in DOMAIN req.asked : Allowed(before, req.who, req.asked[k])
      PROVE  /\ Step.call = "open"
             /\ \E k \in DOMAIN req.asked :
                   /\ req.asked[k].call = "chmod"
                   /\ ~({"r", "w"} \subseteq req.asked[k].mode["owner"])
  <2> DEFINE s == Step
  <2>0. /\ ~Idle /\ req.todo # <<>> /\ Progress /\ Effect
        /\ ~Allowed(node, req.who, s)
    BY <1>1 DEF IInv, Running, Denied
  <2>1. /\ Made \in Nat /\ Made + 1 \in 1..Len(req.asked) /\ s = req.asked[Made + 1] /\ IsCall(s)
        /\ s.call \in XCalls => Made = 0
    BY <2>0, NextCall
  <2>2. Made + 1 \in DOMAIN req.asked
    <3>1. req.asked \in Seq(Steps)
      BY <2>0 DEF Progress, IsRequest
    <3>. QED  BY <2>1, <3>1
  <2>3. Allowed(before, req.who, s)
    BY <1>1, <2>1, <2>2
  <2> HIDE DEF s
  <2>4. /\ s.call # "resize"
        /\ readonly => s.call = "open" /\ ~s.trunc
        /\ s.call \in {"chmod", "utimes"} => OwnerOrRoot(before, req.who)
        /\ s.call = "chown" => chown_ok(before, req.who, s)
        /\ s.call = "open" => open_ok(before, req.who, s)
    BY <2>1, <2>3, Checks
  <2>5. OwnerOrRoot(before, req.who) => OwnerOrRoot(node, req.who)
    BY <2>0 DEF Effect, OwnerOrRoot
  <2>6. s.call \notin XCalls
    BY <2>0, <2>1, <2>3 DEF Effect
  <2>7. s.call \notin {"chmod", "utimes"}
    BY <2>0, <2>4, <2>5 DEF Allowed, chmod_ok, utimes_ok
  <2>8. s.call # "chown"
    <3> SUFFICES ASSUME s.call = "chown" PROVE FALSE
      OBVIOUS
    <3>1. chown_ok(node, req.who, s)
      BY <2>0, <2>4, <2>5 DEF chown_ok, Effect
    <3>. QED  BY <2>0, <2>4, <3>1 DEF Allowed
  <2>9. s.call # "ctime"
    BY <2>0, <2>4 DEF Allowed
  <2>10. s.call = "open"
    BY <2>1, <2>4, <2>6, <2>7, <2>8, <2>9 DEF IsCall, CallNames, XCalls
  <2>11. ~open_ok(node, req.who, s)
    BY <2>0, <2>4, <2>10 DEF Allowed
  <2>. QED  BY <1>1, <2>0, <2>4, <2>10, <2>11, OpenRefused DEF s
<1>2. IInv /\ [Next]_vars =>
         [Denied /\ (\A k \in DOMAIN req.asked : Allowed(before, req.who, req.asked[k]))
          => /\ Step.call = "open"
             /\ \E k \in DOMAIN req.asked :
                   /\ req.asked[k].call = "chmod"
                   /\ ~({"r", "w"} \subseteq req.asked[k].mode["owner"])]_vars
  BY <1>1
<1>. QED  BY Invariant, <1>2, PTL DEF Spec, RefusedMidwayByOwnMode
=============================================================================
