-------------------------- MODULE DiffOracleProofs --------------------------
(***************************************************************************)
(* What a pair of the differential oracle has materialized, and what its   *)
(* verdict means, for any queries, rows and number of writes.              *)
(***************************************************************************)
EXTENDS DiffOracle, SequenceTheorems, TLAPS

Content == [rows : [Keys -> Nat], got : SUBSET Queries, lmid : Nat]
Patch == UNION {[K -> Nat] : K \in SUBSET Keys}
Frame ==  [tag : {"pokeStart"}, base : Nat]
     \cup [tag : {"pokePart"}, rows : Patch, got : SUBSET Queries, lmid : Nat]
     \cup [tag : {"pokeEnd"}, cookie : Nat, cancel : BOOLEAN]

-----------------------------------------------------------------------------
(* One side: v the versions its cache has committed, d the frames on its    *)
(* connection cn, st and g the rows and queries it has materialized, ck its *)
(* cookie, pb its pending base, sn the version the cache takes it to be at. *)

VersionOf(v, c) == IF c = NoCookie THEN Nothing ELSE v[c]
Newest(v) == VersionOf(v, Len(v))

(* The keys some version after b changed. *)
ChangedSince(v, b) ==
  {k \in Keys : \E c \in b + 1 .. Len(v) : VersionOf(v, c).rows[k] # VersionOf(v, c - 1).rows[k]}

(* A key no later version changed has its value still. *)
UnchangedStays(v) ==
  \A c \in 0 .. Len(v), k \in Keys :
     k \notin ChangedSince(v, c) => VersionOf(v, c).rows[k] = Newest(v).rows[k]

SideTypes(v, d, st, g, ck, pb, sn) ==
  /\ v \in Seq(Content) /\ d \in Seq(Frame)
  /\ st \in [Keys -> Nat] /\ g \subseteq Queries
  /\ ck \in 0 .. Len(v) /\ pb \in Nat \cup {Unset} /\ sn \in Nat

Nexts == {<<"pokeStart", "pokePart">>, <<"pokePart", "pokeEnd">>}

(* What a frame in flight says to a client that has cookie ck. *)
FrameSays(v, ck, m) ==
  /\ m.tag = "pokePart" =>
       /\ m.rows = [k \in ChangedSince(v, ck) |-> Newest(v).rows[k]]
       /\ m.got = Newest(v).got \ VersionOf(v, ck).got
       /\ m.lmid = IF Newest(v).lmid # VersionOf(v, ck).lmid THEN Newest(v).lmid ELSE 0
  /\ m.tag = "pokeEnd" => m.cookie = Len(v) /\ ~m.cancel

(* In flight is at most the rest of one poke, to the newest version. *)
OnePoke(v, d, cn, ck, pb, sn) ==
  /\ \A i \in 1 .. Len(d) : FrameSays(v, ck, d[i])
  /\ \A i \in 1 .. Len(d) - 1 : <<d[i].tag, d[i + 1].tag>> \in Nexts
  /\ d # <<>> \/ pb # Unset => ck < Len(v)
  /\ (d # <<>> /\ d[1].tag # "pokeStart") => pb # Unset
  /\ cn = "none" => d = <<>>
  /\ cn = "open" => IF d = <<>> THEN sn = ck ELSE d[Len(d)].tag = "pokeEnd" /\ sn = Len(v)

(* What is materialized: the version of the cookie, between pokes; the      *)
(* newest one, once the part of a poke is in; in any case the version of    *)
(* the cookie where nothing has changed since.                              *)
Materialized(v, d, st, g, ck, pb) ==
  /\ VersionOf(v, ck).got \subseteq g
  /\ \A k \in Keys \ ChangedSince(v, ck) : st[k] = VersionOf(v, ck).rows[k]
  /\ pb = Unset => st = VersionOf(v, ck).rows
  /\ (d # <<>> /\ d[1].tag = "pokeEnd") => st = Newest(v).rows /\ Newest(v).got \subseteq g

SideInv(v, d, cn, st, g, ck, pb, sn) ==
  /\ SideTypes(v, d, st, g, ck, pb, sn) /\ UnchangedStays(v)
  /\ OnePoke(v, d, cn, ck, pb, sn) /\ Materialized(v, d, st, g, ck, pb)

(* What a frame says of the chain: a cache that breaks it claims base 0. *)
Chained(v, d, ck, pb, cv, breaks) ==
  /\ pb \in {Unset, IF breaks THEN 0 ELSE ck}
  /\ \A i \in 1 .. Len(d) : d[i].tag = "pokeStart" => d[i].base = IF breaks THEN 0 ELSE ck
  /\ IF breaks THEN /\ d = <<>> => ck = Len(v)
                    /\ Len(v) <= ck + 1
                    /\ ck > 1 => cv
               ELSE ~cv

-----------------------------------------------------------------------------
(* The invariant. *)

Phases == {"open_primary", "open_mirror", "churn", "churn_mirror", "quiesce", "away",
           "reopen_primary", "reopen_mirror", "requiesce", "done"}
Running == {"churn", "churn_mirror", "quiesce"}
FirstConnection == {"open_primary", "open_mirror"} \cup Running

OracleTypes ==
  /\ pc \in Phases /\ active \subseteq Queries /\ verdict \in {"none", "PASS", "FAIL"}
  /\ cycles \in Nat /\ writes \in Nat /\ mid \in Nat /\ posting \in Nat /\ lmid_acked \in Nat
  /\ over \in BOOLEAN /\ conn_error \in BOOLEAN /\ resume_error \in BOOLEAN
  /\ refused \in BOOLEAN
  /\ conn \in [Side -> {"none", "open", "dropped"}] /\ down \in [Side -> Seq(Frame)]
  /\ state \in [Side -> [Keys -> Nat]] /\ got \in [Side -> SUBSET Queries]
  /\ cookie \in [Side -> Nat] /\ pending_base \in [Side -> Nat \cup {Unset}]
  /\ chain_violation \in [Side -> BOOLEAN]
  /\ db \in Seq([rows : [Keys -> Nat], lmid : Nat]) /\ db # <<>>
  /\ replica \in [Side -> Nat] /\ \A s \in Side : replica[s] \in 1 .. Len(db)
  /\ want \in [Side -> SUBSET Queries] /\ cvr \in [Side -> Seq(Content)]
  /\ sent \in [Side -> Nat] /\ fault \in Faults

MatInv ==
  \A s \in Side : SideInv(cvr[s], down[s], conn[s], state[s], got[s], cookie[s],
                         pending_base[s], sent[s])

(* The connections: one that broke is reopened before the comparison, if    *)
(* there is a resume and none breaks in it.                                 *)
Reconnects == "requiesce" \notin DropIn /\ (Cycles > 0 \/ DropIn = {})

PhaseInv ==
  /\ pc \in FirstConnection => cycles = 0 /\ writes = 0
  /\ pc \in {"open_primary", "open_mirror"} => mid = 0
  /\ posting # 0 => pc \notin {"open_primary", "open_mirror"}
  /\ posting # 0 => pc \in Running \cup {"done"} \/ mishaps # {}
  /\ conn["primary"] = "dropped" => mishaps # {}
  /\ \A s \in Side : conn[s] = "dropped" =>
       fault = "drop" /\ DropIn # {} /\ (Reconnects => pc \in Running)
  /\ pc = "requiesce" => cycles # 0
  /\ pc \in {"open_primary", "away", "reopen_primary"} => conn["primary"] = "none"
  /\ pc \in {"open_primary", "away", "reopen_primary", "open_mirror", "reopen_mirror"} =>
       conn["mirror"] = "none"
  /\ pc # "done" => ~conn_error /\ ~resume_error /\ verdict = "none"

(* The subscriptions: what both sides have been sent is the same, but for a *)
(* patch under way or a send that failed.                                   *)
WantInv ==
  /\ want["primary"] \cup active = want["mirror"] \cup active
  /\ pc \in {"open_mirror", "churn", "churn_mirror", "reopen_mirror", "requiesce"} =>
       active \subseteq want["primary"]
  /\ pc \in {"churn", "requiesce"} => active \subseteq want["mirror"]
  /\ pc = "quiesce" =>
       \/ \E s \in Side : conn[s] = "dropped"
       \/ \A s \in Side : active \subseteq want[s]

Late(s) == IF s = "mirror" /\ fault = "got" THEN {FaultyQuery} ELSE {}
GotInv ==
  \A s \in Side :
    got[s] \subseteq Served(s) \ Late(s) /\ Newest(cvr[s]).got \subseteq Served(s) \ Late(s)

ChainInv ==
  \A s \in Side : Chained(cvr[s], down[s], cookie[s], pending_base[s], chain_violation[s],
                         s = "mirror" /\ fault = "chain")

(* The ids, while nothing befell a write: those of the mutator are the      *)
(* database's count of its writes, and so are, once it is quiet, those      *)
(* acknowledged.                                                            *)
IdInv ==
  mishaps = {} =>
    /\ ~refused
    /\ writes = 0 => Current.lmid = IF posting = 0 THEN mid ELSE mid - 1
    /\ posting # 0 => posting = mid
    /\ pc = "away" => Current.lmid = lmid_acked + writes

AckInv ==
  /\ \A i, j \in 1 .. Len(db) : i <= j => db[i].lmid <= db[j].lmid
  /\ LET v == cvr["primary"]
     IN  /\ VersionOf(v, cookie["primary"]).lmid <= lmid_acked
         /\ lmid_acked <= Newest(v).lmid /\ Newest(v).lmid <= db[replica["primary"]].lmid
         /\ (down["primary"] # <<>> /\ down["primary"][1].tag = "pokeEnd") =>
              lmid_acked = Newest(v).lmid
  /\ \A c \in 0 .. Len(cvr["mirror"]) : VersionOf(cvr["mirror"], c).lmid = 0

(* What was compared is what the caches should deliver. *)
Delivered(s) ==
  [k \in Keys |-> IF /\ \E q \in Served(s) : k \in Rows[q]
                     /\ ~(s = "mirror" /\ fault = "row" /\ k = FaultyKey)
                  THEN Current.rows[k] ELSE 0]

SettledInv ==
  pc = "done" =>
    /\ verdict = IF OracleFailed THEN "FAIL" ELSE "PASS"
    /\ ~conn_error /\ ~resume_error /\ (Reconnects \/ fault # "drop") =>
         /\ want["primary"] = want["mirror"]
         /\ \A s \in Side : /\ active \subseteq want[s] /\ state[s] = Delivered(s)
                           /\ got[s] = Served(s) \ Late(s) /\ (fault # "drop" => errors_down[s] = NoErrors)
         /\ error_kinds["primary"]["transformError"] = error_kinds["mirror"]["transformError"]

(* The rejections forwarded so far: but for a patch or an init message the  *)
(* mirror is still to be sent, both caches forwarded the same.              *)
Forwards(s) == errors_down[s]["transformError"] + error_kinds[s]["transformError"]
MirrorToCome ==
  CASE pc \in {"open_mirror", "reopen_mirror"} -> want["primary"]
    [] pc = "churn_mirror" -> want["primary"] \ want["mirror"]
    [] OTHER -> {}
Raises(queries) == IF fault = "reject" /\ FaultyQuery \in queries THEN 1 ELSE 0

ErrTypes == errors_down \in [Side -> [Kinds -> Nat]] /\ error_kinds \in [Side -> [Kinds -> Nat]]
ErrInv ==
  /\ ErrTypes
  /\ fault # "reject" => \A s \in Side : Forwards(s) = 0
  /\ Forwards("primary") = Forwards("mirror") + Raises(MirrorToCome)
  /\ \A s \in Side : conn[s] = "none" => errors_down[s]["transformError"] = 0

-----------------------------------------------------------------------------
LEMMA VersionType ==
  ASSUME NEW v \in Seq(Content), NEW c \in 0 .. Len(v)
  PROVE  VersionOf(v, c) \in Content
<1>1. Nothing \in Content
  BY DEF Nothing, NoRows, Content
<1>2. CASE c = NoCookie
  BY <1>1, <1>2 DEF VersionOf
<1>3. CASE c # NoCookie
  <2>1. c \in 1 .. Len(v)
    BY <1>3 DEF NoCookie
  <2>2. v[c] \in Content
    BY <2>1
  <2> QED BY <1>3, <2>2 DEF VersionOf
<1> QED BY <1>2, <1>3

LEMMA NothingChangedAfterNewest ==
  ASSUME NEW v \in Seq(Content)
  PROVE  ChangedSince(v, Len(v)) = {}
BY DEF ChangedSince

(* A version more. *)
LEMMA OneMoreVersion ==
  ASSUME NEW v \in Seq(Content), NEW x \in Content, UnchangedStays(v)
  PROVE  /\ Append(v, x) \in Seq(Content) /\ Len(Append(v, x)) = Len(v) + 1
         /\ Newest(Append(v, x)) = x
         /\ \A c \in 0 .. Len(v) : VersionOf(Append(v, x), c) = VersionOf(v, c)
         /\ \A c \in 0 .. Len(v) : ChangedSince(v, c) \subseteq ChangedSince(Append(v, x), c)
         /\ UnchangedStays(Append(v, x))
<1> DEFINE w == Append(v, x)
<1>1. /\ w \in Seq(Content) /\ Len(w) = Len(v) + 1 /\ Len(v) \in Nat
      /\ w[Len(v) + 1] = x /\ \A c \in 1 .. Len(v) : w[c] = v[c]
  OBVIOUS
<1>2. /\ Newest(w) = x /\ VersionOf(w, Len(v) + 1) = x
      /\ \A c \in 0 .. Len(v) : VersionOf(w, c) = VersionOf(v, c)
  BY <1>1 DEF Newest, VersionOf, NoCookie
<1> HIDE DEF w
<1>3. ASSUME NEW c \in 0 .. Len(v), NEW k \in ChangedSince(v, c)
      PROVE  k \in ChangedSince(w, c)
  <2>1. PICK e \in c + 1 .. Len(v) : VersionOf(v, e).rows[k] # VersionOf(v, e - 1).rows[k]
    BY DEF ChangedSince
  <2>2. e \in c + 1 .. Len(w) /\ e \in 0 .. Len(v) /\ e - 1 \in 0 .. Len(v)
    BY <1>1
  <2>3. VersionOf(w, e).rows[k] # VersionOf(w, e - 1).rows[k]
    BY <1>2, <2>1, <2>2
  <2> QED BY <2>2, <2>3 DEF ChangedSince
<1>4. ASSUME NEW c \in 0 .. Len(w), NEW k \in Keys, k \notin ChangedSince(w, c)
      PROVE  VersionOf(w, c).rows[k] = Newest(w).rows[k]
  <2>1. CASE c = Len(w)
    BY <2>1 DEF Newest
  <2>2. CASE c \in 0 .. Len(v)
    <3>1. VersionOf(v, c).rows[k] = Newest(v).rows[k]
      BY <1>3, <1>4, <2>2 DEF UnchangedStays
    <3>2. Len(w) \in c + 1 .. Len(w) /\ Len(w) - 1 = Len(v) /\ Len(v) \in 0 .. Len(v)
      BY <1>1, <2>2
    <3>3. VersionOf(w, Len(w)).rows[k] = VersionOf(w, Len(w) - 1).rows[k]
      BY <1>4, <3>2 DEF ChangedSince
    <3> QED BY <1>2, <2>2, <3>1, <3>2, <3>3 DEF Newest
  <2> QED BY <1>1, <2>1, <2>2
<1>5. UnchangedStays(w)
  BY <1>4 DEF UnchangedStays
<1> QED BY <1>1, <1>2, <1>3, <1>5 DEF w

-----------------------------------------------------------------------------
(* What the frames do to a side. *)

LEMMA StartKeeps ==
  ASSUME NEW v, NEW d, NEW cn, NEW st, NEW g, NEW ck, NEW pb, NEW sn,
         SideInv(v, d, cn, st, g, ck, pb, sn), d # <<>>, Head(d).tag = "pokeStart"
  PROVE  SideInv(v, Tail(d), cn, st, g, ck, Head(d).base, sn)
<1> USE DEF SideInv
<1> DEFINE m == Head(d)
           e == Tail(d)
<1>1. /\ d \in Seq(Frame) /\ Len(d) \in Nat /\ Len(d) > 0 /\ m = d[1] /\ m \in Frame
      /\ e \in Seq(Frame) /\ Len(e) = Len(d) - 1 /\ \A i \in 1 .. Len(e) : e[i] = d[i + 1]
  BY DEF SideTypes
<1>2. m.base \in Nat /\ m.base # Unset
  BY <1>1 DEF Frame, Unset
<1>3. ck < Len(v)
  BY DEF OnePoke
<1> HIDE DEF e, m
<1>4. SideTypes(v, e, st, g, ck, m.base, sn)
  BY <1>1, <1>2 DEF SideTypes
<1>5. e # <<>> => e[1].tag = "pokePart"
  <2> SUFFICES ASSUME e # <<>> PROVE e[1].tag = "pokePart"
    OBVIOUS
  <2>1. 1 \in 1 .. Len(d) - 1 /\ 1 \in 1 .. Len(e)
    BY <1>1
  <2>2. <<d[1].tag, d[2].tag>> \in Nexts /\ e[1] = d[2]
    BY <1>1, <2>1 DEF OnePoke
  <2> QED BY <1>1, <2>2 DEF Nexts, m
<1>6. OnePoke(v, e, cn, ck, m.base, sn)
  <2>1. \A i \in 1 .. Len(e) : FrameSays(v, ck, e[i])
    BY <1>1 DEF OnePoke
  <2>2. \A i \in 1 .. Len(e) - 1 : <<e[i].tag, e[i + 1].tag>> \in Nexts
    <3> TAKE i \in 1 .. Len(e) - 1
    <3>1. i \in 1 .. Len(e) /\ i + 1 \in 1 .. Len(e) /\ i + 1 \in 1 .. Len(d) - 1
      BY <1>1
    <3>2. <<d[i + 1].tag, d[(i + 1) + 1].tag>> \in Nexts
      BY <3>1 DEF OnePoke
    <3>3. e[i] = d[i + 1] /\ e[i + 1] = d[(i + 1) + 1]
      BY <1>1, <3>1
    <3> QED BY <3>2, <3>3
  <2>3. cn = "none" => e = <<>>
    BY DEF OnePoke
  <2>4. cn = "open" => /\ e # <<>> /\ e[Len(e)].tag = "pokeEnd" /\ sn = Len(v)
    <3> SUFFICES ASSUME cn = "open"
                 PROVE e # <<>> /\ e[Len(e)].tag = "pokeEnd" /\ sn = Len(v)
      OBVIOUS
    <3>1. d[Len(d)].tag = "pokeEnd" /\ sn = Len(v)
      BY DEF OnePoke
    <3>2. Len(d) # 1
      BY <1>1, <3>1 DEF m
    <3> QED BY <1>1, <3>1, <3>2
  <2> QED BY <1>2, <1>3, <2>1, <2>2, <2>3, <2>4 DEF OnePoke
<1>7. Materialized(v, e, st, g, ck, m.base)
  BY <1>2, <1>5 DEF Materialized
<1> QED BY <1>4, <1>6, <1>7 DEF e, m

LEMMA PartKeeps ==
  ASSUME NEW v, NEW d, NEW cn, NEW st, NEW g, NEW ck, NEW pb, NEW sn,
         SideInv(v, d, cn, st, g, ck, pb, sn), d # <<>>, Head(d).tag = "pokePart"
  PROVE  /\ SideInv(v, Tail(d), cn, Patched(st, Head(d).rows), g \cup Head(d).got, ck, pb, sn)
         /\ Head(d).lmid \in Nat
<1> USE DEF SideInv
<1> DEFINE m == Head(d)
           e == Tail(d)
           st2 == Patched(st, m.rows)
           g2 == g \cup m.got
<1>1. /\ d \in Seq(Frame) /\ Len(d) \in Nat /\ Len(d) > 0 /\ m = d[1] /\ m \in Frame
      /\ e \in Seq(Frame) /\ Len(e) = Len(d) - 1 /\ \A i \in 1 .. Len(e) : e[i] = d[i + 1]
  BY DEF SideTypes
<1>2. /\ m.rows = [k \in ChangedSince(v, ck) |-> Newest(v).rows[k]]
      /\ m.got = Newest(v).got \ VersionOf(v, ck).got
  BY <1>1 DEF OnePoke, FrameSays
<1>3. ck < Len(v) /\ pb # Unset
  BY <1>1 DEF OnePoke
<1>4. v \in Seq(Content) /\ Len(v) \in Nat /\ ck \in 0 .. Len(v) /\ Len(v) \in 0 .. Len(v)
  BY DEF SideTypes
<1>5. Newest(v) \in Content /\ VersionOf(v, ck) \in Content
  BY <1>4, VersionType DEF Newest
<1> HIDE DEF e, m
<1>6. st2 \in [Keys -> Nat] /\ st2 = Newest(v).rows
  <2>1. ASSUME NEW k \in Keys PROVE st2[k] = Newest(v).rows[k]
    <3>1. CASE k \in ChangedSince(v, ck)
      BY <1>2, <3>1 DEF Patched
    <3>2. CASE k \notin ChangedSince(v, ck)
      <4>1. st2[k] = st[k]
        BY <1>2, <3>2 DEF Patched
      <4>2. st[k] = VersionOf(v, ck).rows[k]
        BY <3>2 DEF Materialized
      <4>3. VersionOf(v, ck).rows[k] = Newest(v).rows[k]
        BY <1>4, <3>2 DEF UnchangedStays
      <4> QED BY <4>1, <4>2, <4>3
    <3> QED BY <3>1, <3>2
  <2>2. Newest(v).rows \in [Keys -> Nat]
    BY <1>5 DEF Content
  <2>3. st2 = [k \in Keys |-> st2[k]]
    BY DEF Patched
  <2> QED BY <2>1, <2>2, <2>3
<1>7. g2 \subseteq Queries /\ VersionOf(v, ck).got \subseteq g2 /\ Newest(v).got \subseteq g2
  BY <1>2, <1>5 DEF Content, Materialized, SideTypes
<1> HIDE DEF st2, g2
<1>8. SideTypes(v, e, st2, g2, ck, pb, sn)
  BY <1>1, <1>6, <1>7 DEF SideTypes
<1>9. OnePoke(v, e, cn, ck, pb, sn)
  <2>1. \A i \in 1 .. Len(e) : FrameSays(v, ck, e[i])
    BY <1>1 DEF OnePoke
  <2>2. \A i \in 1 .. Len(e) - 1 : <<e[i].tag, e[i + 1].tag>> \in Nexts
    <3> TAKE i \in 1 .. Len(e) - 1
    <3>1. i \in 1 .. Len(e) /\ i + 1 \in 1 .. Len(e) /\ i + 1 \in 1 .. Len(d) - 1
      BY <1>1
    <3>2. <<d[i + 1].tag, d[(i + 1) + 1].tag>> \in Nexts
      BY <3>1 DEF OnePoke
    <3>3. e[i] = d[i + 1] /\ e[i + 1] = d[(i + 1) + 1]
      BY <1>1, <3>1
    <3> QED BY <3>2, <3>3
  <2>3. cn = "none" => e = <<>>
    BY DEF OnePoke
  <2>4. cn = "open" => /\ e # <<>> /\ e[Len(e)].tag = "pokeEnd" /\ sn = Len(v)
    <3> SUFFICES ASSUME cn = "open"
                 PROVE e # <<>> /\ e[Len(e)].tag = "pokeEnd" /\ sn = Len(v)
      OBVIOUS
    <3>1. d[Len(d)].tag = "pokeEnd" /\ sn = Len(v)
      BY DEF OnePoke
    <3>2. Len(d) # 1
      BY <1>1, <3>1 DEF m
    <3> QED BY <1>1, <3>1, <3>2
  <2> QED BY <1>3, <2>1, <2>2, <2>3, <2>4 DEF OnePoke
<1>10. Materialized(v, e, st2, g2, ck, pb)
  <2>1. \A k \in Keys \ ChangedSince(v, ck) : st2[k] = VersionOf(v, ck).rows[k]
    BY <1>4, <1>6 DEF UnchangedStays
  <2> QED BY <1>3, <1>6, <1>7, <2>1 DEF Materialized
<1>11. m.lmid \in Nat
  BY <1>1 DEF Frame, m
<1> QED BY <1>8, <1>9, <1>10, <1>11 DEF e, m, st2, g2

LEMMA TailOfOne ==
  ASSUME NEW S, NEW e \in Seq(S), Len(e) = 1
  PROVE  Tail(e) = <<>>
<1>1. e # <<>>
  BY EmptySeq
<1>2. Tail(e) \in Seq(S) /\ Len(Tail(e)) = 0
  BY <1>1, HeadTailProperties
<1> QED BY <1>2, EmptySeq

LEMMA EndKeeps ==
  ASSUME NEW v, NEW d, NEW cn, NEW st, NEW g, NEW ck, NEW pb, NEW sn,
         SideInv(v, d, cn, st, g, ck, pb, sn), d # <<>>, Head(d).tag = "pokeEnd"
  PROVE  /\ Head(d).cookie = Len(v) /\ ~Head(d).cancel /\ Tail(d) = <<>>
         /\ SideInv(v, Tail(d), cn, st, g, Head(d).cookie, Unset, sn)
<1> USE DEF SideInv
<1> DEFINE m == Head(d)
<1>1. d \in Seq(Frame) /\ Len(d) \in Nat /\ Len(d) > 0 /\ m = d[1]
  BY DEF SideTypes
<1>2. m.cookie = Len(v) /\ ~m.cancel
  <2>1. FrameSays(v, ck, d[1])
    BY <1>1 DEF OnePoke
  <2> QED BY <1>1, <2>1 DEF FrameSays
<1>3. Len(d) = 1
  <2> SUFFICES ASSUME Len(d) # 1 PROVE FALSE
    OBVIOUS
  <2>1. \A n \in Nat : n > 0 /\ n # 1 => 1 \in 1 .. n - 1
    OBVIOUS
  <2>2. <<d[1].tag, d[1 + 1].tag>> \in Nexts
    BY <1>1, <2>1 DEF OnePoke
  <2> QED BY <1>1, <2>2 DEF Nexts
<1>4. Tail(d) = <<>>
  BY <1>1, <1>3, TailOfOne
<1>5. /\ v \in Seq(Content) /\ Len(v) \in 0 .. Len(v) /\ Newest(v) \in Content
      /\ st = Newest(v).rows /\ Newest(v).got \subseteq g
  <2>1. v \in Seq(Content) /\ Len(v) \in 0 .. Len(v)
    BY DEF SideTypes
  <2> QED BY <1>1, <2>1, VersionType DEF Newest, Materialized
<1>6. SideTypes(v, <<>>, st, g, Len(v), Unset, sn)
  BY <1>5 DEF SideTypes
<1>7. OnePoke(v, <<>>, cn, Len(v), Unset, sn)
  BY <1>1, <1>3 DEF OnePoke
<1>8. Materialized(v, <<>>, st, g, Len(v), Unset)
  BY <1>5 DEF Materialized, Newest
<1> QED BY <1>2, <1>4, <1>6, <1>7, <1>8

-----------------------------------------------------------------------------
(* What the connection and the cache do to a side. *)

LEMMA CutKeeps ==
  ASSUME NEW v, NEW d, NEW cn, NEW st, NEW g, NEW ck, NEW pb, NEW sn,
         SideInv(v, d, cn, st, g, ck, pb, sn), NEW n \in 0 .. Len(d)
  PROVE  SideInv(v, SubSeq(d, 1, n), "dropped", st, g, ck, pb, sn)
<1> USE DEF SideInv
<1> DEFINE e == SubSeq(d, 1, n)
<1>1. /\ d \in Seq(Frame) /\ Len(d) \in Nat /\ n \in Nat /\ n <= Len(d)
      /\ e \in Seq(Frame) /\ Len(e) = n /\ \A i \in 1 .. n : e[i] = d[i]
  BY DEF SideTypes
<1> HIDE DEF e
<1>2. SideTypes(v, e, st, g, ck, pb, sn)
  BY <1>1 DEF SideTypes
<1>3. e # <<>> => d # <<>> /\ e[1] = d[1]
  BY <1>1
<1>4. OnePoke(v, e, "dropped", ck, pb, sn)
  <2>1. \A i \in 1 .. Len(e) : FrameSays(v, ck, e[i])
    BY <1>1 DEF OnePoke
  <2>2. \A i \in 1 .. Len(e) - 1 : <<e[i].tag, e[i + 1].tag>> \in Nexts
    <3> TAKE i \in 1 .. Len(e) - 1
    <3>1. i \in 1 .. n /\ i + 1 \in 1 .. n /\ i \in 1 .. Len(d) - 1
      BY <1>1
    <3> QED BY <1>1, <3>1 DEF OnePoke
  <2> QED BY <1>3, <2>1, <2>2 DEF OnePoke
<1>5. Materialized(v, e, st, g, ck, pb)
  BY <1>3 DEF Materialized
<1> QED BY <1>2, <1>4, <1>5 DEF e

LEMMA ConnectKeeps ==
  ASSUME NEW v, NEW d, NEW cn, NEW st, NEW g, NEW ck, NEW pb, NEW sn,
         SideInv(v, d, cn, st, g, ck, pb, sn)
  PROVE  /\ SideInv(v, <<>>, "open", st, g, ck, pb, ck)
         /\ SideInv(v, <<>>, "none", st, g, ck, pb, sn)
BY DEF SideInv, SideTypes, OnePoke, Materialized

(* The frames of a poke from version c to the newest. *)
WholePoke(v, c, base) ==
  << [tag |-> "pokeStart", base |-> base],
     [tag |-> "pokePart", rows |-> [k \in ChangedSince(v, c) |-> Newest(v).rows[k]],
      got |-> Newest(v).got \ VersionOf(v, c).got,
      lmid |-> IF Newest(v).lmid # VersionOf(v, c).lmid THEN Newest(v).lmid ELSE 0],
     [tag |-> "pokeEnd", cookie |-> Len(v), cancel |-> FALSE] >>

(* The versions a poke takes the client to: one more, if it is fresh. *)
LEMMA PokeKeeps ==
  ASSUME NEW v, NEW st, NEW g, NEW ck, NEW pb, NEW sn,
         SideInv(v, <<>>, "open", st, g, ck, pb, sn),
         NEW x \in Content, NEW w \in {v, Append(v, x)}, sn < Len(w),
         NEW b \in Nat
  PROVE  SideInv(w, WholePoke(w, sn, b), "open", st, g, ck, pb, Len(w))
<1> USE DEF SideInv
<1> DEFINE m1 == [tag |-> "pokeStart", base |-> b]
           m2 == [tag |-> "pokePart", rows |-> [k \in ChangedSince(w, sn) |-> Newest(w).rows[k]],
                  got |-> Newest(w).got \ VersionOf(w, sn).got,
                  lmid |-> IF Newest(w).lmid # VersionOf(w, sn).lmid THEN Newest(w).lmid ELSE 0]
           m3 == [tag |-> "pokeEnd", cookie |-> Len(w), cancel |-> FALSE]
           e == <<m1, m2, m3>>
<1>1. /\ sn = ck /\ v \in Seq(Content) /\ Len(v) \in Nat /\ ck \in 0 .. Len(v)
      /\ st \in [Keys -> Nat] /\ g \subseteq Queries /\ pb \in Nat \cup {Unset}
      /\ UnchangedStays(v)
  BY DEF SideTypes, OnePoke
<1>2. /\ w \in Seq(Content) /\ Len(w) \in Nat /\ ck \in 0 .. Len(w) /\ UnchangedStays(w)
      /\ VersionOf(w, ck) = VersionOf(v, ck) /\ ChangedSince(v, ck) \subseteq ChangedSince(w, ck)
  <2>1. CASE w = v
    BY <1>1, <2>1
  <2>2. CASE w = Append(v, x)
    BY <1>1, <2>2, OneMoreVersion
  <2> QED BY <2>1, <2>2
<1>3. Newest(w) \in Content /\ VersionOf(w, ck) \in Content
  BY <1>2, VersionType DEF Newest
<1>4. ChangedSince(w, sn) \in SUBSET Keys
  BY DEF ChangedSince
<1>5. [k \in ChangedSince(w, sn) |-> Newest(w).rows[k]] \in Patch
  <2> DEFINE K == ChangedSince(w, sn)
  <2>1. [k \in K |-> Newest(w).rows[k]] \in [K -> Nat]
    BY <1>3, <1>4 DEF Content
  <2> HIDE DEF K
  <2>2. [K -> Nat] \subseteq Patch
    BY <1>4 DEF Patch, K
  <2> QED BY <2>1, <2>2 DEF K
<1>6. m1 \in Frame /\ m2 \in Frame /\ m3 \in Frame
  <2>1. m1 \in Frame
    BY DEF Frame
  <2>2. m2 \in Frame
    <3>1. Newest(w).got \ VersionOf(w, sn).got \in SUBSET Queries
      BY <1>3 DEF Content
    <3>2. m2.lmid \in Nat
      BY <1>3 DEF Content
    <3> HIDE DEF Patch
    <3> QED BY <1>5, <3>1, <3>2 DEF Frame
  <2>3. m3 \in Frame
    BY <1>2 DEF Frame
  <2> QED BY <2>1, <2>2, <2>3
<1>7. FrameSays(w, ck, m1) /\ FrameSays(w, ck, m2) /\ FrameSays(w, ck, m3)
  BY <1>1 DEF FrameSays
<1>8. m1.tag = "pokeStart" /\ m2.tag = "pokePart" /\ m3.tag = "pokeEnd"
  OBVIOUS
<1> HIDE DEF m1, m2, m3
<1>9. e \in Seq(Frame) /\ Len(e) = 3 /\ e[1] = m1 /\ e[2] = m2 /\ e[3] = m3 /\ e # <<>>
  BY <1>6
<1> HIDE DEF e
<1>10. SideTypes(w, e, st, g, ck, pb, Len(w))
  BY <1>1, <1>2, <1>9 DEF SideTypes
<1>11. OnePoke(w, e, "open", ck, pb, Len(w))
  <2>1. \A i \in 1 .. Len(e) : FrameSays(w, ck, e[i])
    <3> TAKE i \in 1 .. Len(e)
    <3>1. i = 1 \/ i = 2 \/ i = 3
      BY <1>9
    <3> QED BY <1>7, <1>9, <3>1
  <2>2. \A i \in 1 .. Len(e) - 1 : <<e[i].tag, e[i + 1].tag>> \in Nexts
    <3> TAKE i \in 1 .. Len(e) - 1
    <3>1. i = 1 \/ i = 2
      BY <1>9
    <3> QED BY <1>8, <1>9, <3>1 DEF Nexts
  <2>3. ck < Len(w)
    BY <1>1
  <2> QED BY <1>8, <1>9, <2>1, <2>2, <2>3 DEF OnePoke
<1>12. Materialized(w, e, st, g, ck, pb)
  BY <1>2, <1>8, <1>9 DEF Materialized
<1>13. e = WholePoke(w, sn, b)
  BY DEF e, m1, m2, m3, WholePoke
<1> QED BY <1>2, <1>10, <1>11, <1>12, <1>13

-----------------------------------------------------------------------------
(* The types. *)

LEMMA SidesAre == "primary" \in Side /\ "mirror" \in Side /\ "primary" # "mirror"
BY DEF Side

Record == [rows : [Keys -> Nat], lmid : Nat]

LEMMA DatabaseType ==
  ASSUME OracleTypes
  PROVE  /\ db \in Seq(Record) /\ Len(db) \in Nat /\ Len(db) > 0 /\ Current \in Record
         /\ \A i \in 1 .. Len(db) : db[i] \in Record
<1>1. db \in Seq(Record) /\ db # <<>>
  BY DEF OracleTypes, Record
<1>2. Len(db) \in Nat /\ Len(db) > 0
  BY <1>1
<1>3. \A i \in 1 .. Len(db) : db[i] \in Record
  BY <1>1
<1> QED BY <1>1, <1>2, <1>3 DEF Current

LEMMA ViewType ==
  ASSUME OracleTypes, NEW s \in Side
  PROVE  View(s) \in Content
<1>1. db[replica[s]] \in Record /\ want[s] \subseteq Queries
  BY DatabaseType DEF OracleTypes
<1> USE DEF Record
<1> DEFINE selected == UNION {Rows[q] : q \in Served(s)}
           hidden == IF s = "mirror" /\ fault = "row" THEN {FaultyKey} ELSE {}
           rows == [k \in Keys |-> IF k \in selected \ hidden THEN db[replica[s]].rows[k] ELSE 0]
           lmid == IF s = "primary" THEN db[replica[s]].lmid ELSE 0
<1> HIDE DEF selected, hidden
<1>2. rows \in [Keys -> Nat]
  BY <1>1
<1>3. Served(s) \ Late(s) \in SUBSET Queries
  BY <1>1 DEF Served
<1>4. lmid \in Nat
  BY <1>1
<1>5. View(s) = [rows |-> rows, got |-> Served(s) \ Late(s), lmid |-> lmid]
  BY DEF View, Late, selected, hidden
<1> HIDE DEF rows, lmid
<1> QED BY <1>2, <1>3, <1>4, <1>5 DEF Content

(* What a poke that is not cancelled does. *)
PokeTo(s, w) ==
  /\ conn[s] = "open" /\ down[s] = <<>> /\ sent[s] < Len(w)
  /\ w = IF View(s) = Newest(cvr[s]) THEN cvr[s] ELSE Append(cvr[s], View(s))
  /\ down' = [down EXCEPT ![s] = WholePoke(w, sent[s],
                                   IF s = "mirror" /\ fault = "chain" THEN 0 ELSE sent[s])]
  /\ cvr' = [cvr EXCEPT ![s] = w] /\ sent' = [sent EXCEPT ![s] = Len(w)]
  /\ UNCHANGED <<runVars, writeVars, matVars, conn, errors_down, dbVars, replica, want, fault>>

LEMMA PokeIs ==
  ASSUME ~Cancels, OracleTypes, NEW s \in Side, Poke(s)
  PROVE  \E w \in {cvr[s], Append(cvr[s], View(s))} : PokeTo(s, w)
<1> DEFINE w == IF View(s) # Version(s, Len(cvr[s])) THEN Append(cvr[s], View(s)) ELSE cvr[s]
<1>1. Version(s, Len(cvr[s])) = Newest(cvr[s])
  BY DEF Version, Newest, VersionOf
<1>2. w = IF View(s) = Newest(cvr[s]) THEN cvr[s] ELSE Append(cvr[s], View(s))
  BY <1>1
<1> DEFINE At(c) == IF c = NoCookie THEN Nothing ELSE w[c]
           changed == {k \in Keys : \E c \in sent[s] + 1 .. Len(w) :
                                      At(c).rows[k] # At(c - 1).rows[k]}
<1>3. \A c : At(c) = VersionOf(w, c)
  BY DEF VersionOf
<1>4. changed = ChangedSince(w, sent[s])
  <2> HIDE DEF At, w
  <2> QED BY <1>3 DEF ChangedSince
<1>5. At(Len(w)) = Newest(w)
  BY <1>3 DEF Newest
<1>6. /\ conn[s] = "open" /\ down[s] = <<>> /\ Len(w) > sent[s]
      /\ UNCHANGED <<runVars, writeVars, matVars, conn, errors_down, dbVars, replica, want, fault>>
      /\ cvr' = [cvr EXCEPT ![s] = w] /\ sent' = [sent EXCEPT ![s] = Len(w)]
      /\ down' = [down EXCEPT ![s] = <<
           [tag |-> "pokeStart", base |-> IF s = "mirror" /\ fault = "chain" THEN 0 ELSE sent[s]],
           [tag |-> "pokePart", rows |-> [k \in changed |-> At(Len(w)).rows[k]],
            got |-> At(Len(w)).got \ At(sent[s]).got,
            lmid |-> IF At(Len(w)).lmid # At(sent[s]).lmid THEN At(Len(w)).lmid ELSE 0],
           [tag |-> "pokeEnd", cookie |-> Len(w), cancel |-> FALSE] >>]
  BY DEF Poke
<1> HIDE DEF At, changed, w
<1>7. sent[s] \in Nat /\ sent[s] < Len(w)
  <2>1. w \in Seq(Content)
    <3>1. cvr[s] \in Seq(Content) /\ View(s) \in Content
      BY ViewType DEF OracleTypes
    <3>2. Append(cvr[s], View(s)) \in Seq(Content)
      BY <3>1
    <3> QED BY <1>2, <3>1, <3>2
  <2> QED BY <1>6, <2>1 DEF OracleTypes
<1>8. PokeTo(s, w)
  BY <1>2, <1>3, <1>4, <1>5, <1>6, <1>7 DEF PokeTo, WholePoke
<1> QED BY <1>2, <1>8

LEMMA TypesInitial == Init => OracleTypes
<1> SUFFICES ASSUME Init PROVE OracleTypes
  OBVIOUS
<1> USE DEF Init
<1>1. <<>> \in Seq(Frame) /\ <<>> \in Seq(Content) /\ NoRows \in [Keys -> Nat]
  BY DEF NoRows
<1>2. db \in Seq(Record) /\ db # <<>> /\ Len(db) = 1
  BY DEF Record
<1>3. active \subseteq Queries /\ fault \in Faults
  BY OracleAssumption
<1>4. /\ replica \in [Side -> Nat] /\ \A s \in Side : replica[s] \in 1 .. Len(db)
  BY <1>2
<1>5. /\ pc \in Phases /\ active \subseteq Queries /\ verdict \in {"none", "PASS", "FAIL"}
      /\ cycles \in Nat /\ writes \in Nat /\ mid \in Nat /\ posting \in Nat /\ lmid_acked \in Nat
      /\ over \in BOOLEAN /\ conn_error \in BOOLEAN /\ resume_error \in BOOLEAN
      /\ refused \in BOOLEAN
  BY <1>3 DEF Phases
<1>6. /\ conn \in [Side -> {"none", "open", "dropped"}] /\ down \in [Side -> Seq(Frame)]
      /\ state \in [Side -> [Keys -> Nat]] /\ got \in [Side -> SUBSET Queries]
      /\ cookie \in [Side -> Nat] /\ pending_base \in [Side -> Nat \cup {Unset}]
      /\ chain_violation \in [Side -> BOOLEAN]
  BY <1>1 DEF NoCookie
<1>7. /\ want \in [Side -> SUBSET Queries] /\ cvr \in [Side -> Seq(Content)]
      /\ sent \in [Side -> Nat] /\ fault \in Faults
  BY <1>1, <1>3 DEF NoCookie
<1> HIDE DEF Init
<1> QED BY <1>2, <1>4, <1>5, <1>6, <1>7 DEF OracleTypes, Record

RunTypes ==
  /\ pc \in Phases /\ active \subseteq Queries /\ verdict \in {"none", "PASS", "FAIL"}
  /\ over \in BOOLEAN /\ conn_error \in BOOLEAN /\ resume_error \in BOOLEAN
  /\ cycles \in Nat /\ writes \in Nat

SideVarTypes ==
  /\ conn \in [Side -> {"none", "open", "dropped"}] /\ down \in [Side -> Seq(Frame)]
  /\ state \in [Side -> [Keys -> Nat]] /\ got \in [Side -> SUBSET Queries]
  /\ cookie \in [Side -> Nat] /\ pending_base \in [Side -> Nat \cup {Unset}]
  /\ chain_violation \in [Side -> BOOLEAN] /\ lmid_acked \in Nat
  /\ cvr \in [Side -> Seq(Content)] /\ sent \in [Side -> Nat]

WorldTypes ==
  /\ refused \in BOOLEAN /\ mid \in Nat /\ posting \in Nat /\ fault \in Faults
  /\ db \in Seq([rows : [Keys -> Nat], lmid : Nat]) /\ db # <<>>
  /\ replica \in [Side -> Nat] /\ \A s \in Side : replica[s] \in 1 .. Len(db)
  /\ want \in [Side -> SUBSET Queries]

LEMMA TypesAre == OracleTypes <=> RunTypes /\ SideVarTypes /\ WorldTypes
BY DEF OracleTypes, RunTypes, SideVarTypes, WorldTypes

(* Error frames change nothing but their own counts. *)
LEMMA ErrorsOnly ==
  ASSUME NEW s \in Side, OnError(s) \/ Refuse(s)
  PROVE  UNCHANGED <<runVars, writeVars, conn, down, state, got, cookie, pending_base,
                     chain_violation, lmid_acked, dbVars, cacheVars>>
<1>1. CASE OnError(s)
  BY <1>1 DEF OnError
<1>2. CASE Refuse(s)
  BY <1>2 DEF Refuse, matVars
<1> QED BY <1>1, <1>2

LEMMA RunTypesKept ==
  ASSUME OracleTypes, [Next]_vars
  PROVE  RunTypes'
<1> USE DEF runVars, OracleTypes, RunTypes, Phases
<1>1. CASE UNCHANGED runVars
  BY <1>1
<1>2. ASSUME NEW s \in Side, OpenSocket(s) \/ OpenSocketFails(s)
      PROVE  RunTypes'
  <2>1. CASE OpenSocket(s)
    <3>1. pc' \in Phases /\ cycles' \in Nat
      BY <2>1 DEF OpenSocket, Opening
    <3> QED BY <2>1, <3>1 DEF OpenSocket
  <2>2. CASE OpenSocketFails(s)
    <3>1. conn_error' \in BOOLEAN /\ resume_error' \in BOOLEAN
      BY <2>2 DEF OpenSocketFails
    <3>2. pc' \in Phases /\ verdict' \in {"none", "PASS", "FAIL"}
      BY <2>2 DEF OpenSocketFails, Conclude
    <3> QED BY <2>2, <3>1, <3>2 DEF OpenSocketFails
  <2> QED BY <1>2, <2>1, <2>2
<1>3. CASE Churn
  <2>1. active' \subseteq Queries /\ pc' \in {"churn_mirror", "quiesce"}
    BY <1>3 DEF Churn, SendRaises
  <2>2. UNCHANGED <<over, cycles, writes, conn_error, resume_error, verdict>>
    BY <1>3 DEF Churn
  <2> QED BY <2>1, <2>2
<1>4. CASE ChurnMirror \/ ChurnEnds
  BY <1>4 DEF ChurnMirror, SendRaises, ChurnEnds
<1>7. CASE WriteWhileAway
  <2>1. writes' \in Nat
    BY <1>7 DEF WriteWhileAway
  <2> QED BY <1>7, <2>1 DEF WriteWhileAway
<1>8. CASE Reconnect \/ Away \/ TimeUp
  BY <1>8 DEF Reconnect, Away, TimeUp
<1>9. CASE Compare
  BY <1>9 DEF Compare, Conclude
<1>5. CASE Mutate \/ MutationLands \/ Done
  BY <1>1, <1>5 DEF Mutate, MutationLands, Done, vars
<1>6. ASSUME NEW s \in Side, Reader(s) \/ Cache(s) \/ Refuse(s) \/ Drop(s)
      PROVE  RunTypes'
  BY <1>1, <1>6, ErrorsOnly DEF Reader, OnPokeStart, OnPokePart, OnPokeEnd, Receive, Cache,
                                Replicate, Poke, Drop
<1> QED BY <1>1, <1>2, <1>3, <1>4, <1>5, <1>6, <1>7, <1>8, <1>9 DEF Next, Pair, vars

(* A write appends a row of the right type, and keeps those there were. *)
LEMMA ApplyType ==
  ASSUME OracleTypes, NEW id \in Nat, Apply(id)
  PROVE  /\ refused' \in BOOLEAN /\ db' \in Seq(Record) /\ Len(db') >= Len(db) /\ db' # <<>>
         /\ \A i \in 1 .. Len(db) : db'[i] = db[i]
         /\ id = Current.lmid + 1 => Len(db') = Len(db) + 1 /\ Current'.lmid = id
<1>1. refused' \in BOOLEAN
  BY DEF OracleTypes, Apply
<1>2. CASE id = Current.lmid + 1
  <2>1. PICK k \in Keys, value \in {0, id + 1} :
          db' = Append(db, [rows |-> [Current.rows EXCEPT ![k] = value], lmid |-> id])
    BY <1>2 DEF Apply
  <2> DEFINE x == [rows |-> [Current.rows EXCEPT ![k] = value], lmid |-> id]
  <2>2. x \in Record /\ x.lmid = id
    BY DatabaseType DEF Record
  <2> HIDE DEF x
  <2>3. db' = Append(db, x)
    BY <2>1 DEF x
  <2>4. /\ db' \in Seq(Record) /\ Len(db') = Len(db) + 1 /\ \A i \in 1 .. Len(db) : db'[i] = db[i]
        /\ db'[Len(db')] = x /\ db' # <<>>
    BY <2>2, <2>3, DatabaseType
  <2> QED BY <1>1, <2>2, <2>4, DatabaseType DEF Current
<1>3. CASE id # Current.lmid + 1
  BY <1>1, <1>3, DatabaseType DEF Apply
<1> QED BY <1>2, <1>3

LEMMA WorldTypesKept ==
  ASSUME OracleTypes, [Next]_vars
  PROVE  WorldTypes'
<1> DEFINE worldVars == <<mid, posting, refused, db, replica, want, fault>>
<1> USE DEF OracleTypes, WorldTypes
<1>1. CASE UNCHANGED worldVars
  BY <1>1
<1>2. ASSUME NEW s \in Side, OpenSocket(s) \/ OpenSocketFails(s)
      PROVE  WorldTypes'
  <2>1. CASE OpenSocketFails(s)
    BY <1>1, <2>1 DEF OpenSocketFails, writeVars, dbVars, cacheVars
  <2>2. CASE OpenSocket(s)
    <3>1. /\ want' = [want EXCEPT ![s] = @ \cup active]
          /\ UNCHANGED <<mid, posting, refused, db, replica, fault>>
      BY <2>2 DEF OpenSocket, Declared, writeVars, dbVars
    <3>2. want' \in [Side -> SUBSET Queries]
      BY <3>1
    <3> QED BY <3>1, <3>2
  <2> QED BY <1>2, <2>1, <2>2
<1>3. CASE Churn \/ ChurnMirror \/ ChurnEnds
  <2>1. active' \subseteq Queries
    BY <1>3, RunTypesKept DEF Next, Pair, RunTypes
  <2>2. /\ UNCHANGED <<mid, posting, refused, db, replica, fault>>
        /\ \/ UNCHANGED want
           \/ \E s \in Side : want' = [want EXCEPT ![s] = @ \cup active']
    BY <1>3 DEF Churn, ChurnMirror, SendRaises, ChurnEnds, Deliver, writeVars, dbVars, cacheVars, Side
  <2>3. want' \in [Side -> SUBSET Queries]
    BY <2>1, <2>2
  <2> QED BY <2>2, <2>3
<1>4. CASE Reconnect \/ Away \/ Compare \/ TimeUp
  BY <1>1, <1>4 DEF Reconnect, Away, Compare, Conclude, TimeUp, writeVars, dbVars, cacheVars
<1>5. CASE Mutate \/ Done
  BY <1>1, <1>5 DEF Mutate, Done, vars, dbVars, cacheVars, writeVars
<1>6. ASSUME NEW id \in Nat, Post(id), mid' = mid, posting' \in {posting, 0}, UNCHANGED cacheVars
      PROVE  WorldTypes'
  <2>1. /\ refused' \in BOOLEAN /\ db' \in Seq(Record) /\ Len(db') >= Len(db) /\ db' # <<>>
    BY <1>6, ApplyType, DatabaseType DEF Post, dbVars
  <2>2. \A s \in Side : replica'[s] \in 1 .. Len(db')
    BY <1>6, <2>1, DatabaseType DEF cacheVars
  <2> QED BY <1>6, <2>1, <2>2 DEF Record, cacheVars
<1>7. CASE WriteWhileAway \/ MutationLands
  <2>1. ResumeId \in Nat /\ posting \in Nat
    BY DEF ResumeId
  <2> QED BY <1>6, <1>7, <2>1 DEF WriteWhileAway, MutationLands, writeVars
<1>8. ASSUME NEW s \in Side, Reader(s) \/ Refuse(s) \/ Drop(s)
      PROVE  WorldTypes'
  BY <1>1, <1>8, ErrorsOnly DEF Reader, OnPokeStart, OnPokePart, OnPokeEnd, Receive, Drop,
                                writeVars, dbVars, cacheVars
<1>9. ASSUME NEW s \in Side, Cache(s)
      PROVE  WorldTypes'
  <2>1. CASE Poke(s)
    BY <1>1, <2>1 DEF Poke, writeVars, dbVars
  <2>2. CASE Replicate(s)
    <3>1. /\ replica[s] < Len(db) /\ replica' = [replica EXCEPT ![s] = @ + 1]
          /\ UNCHANGED <<mid, posting, refused, db, want, fault>>
      BY <2>2 DEF Replicate, writeVars, dbVars
    <3>2. \A x \in Side : replica'[x] = IF x = s THEN replica[x] + 1 ELSE replica[x]
      BY <3>1
    <3>3. \A x \in Side : replica'[x] \in 1 .. Len(db)
      <4>1. ASSUME NEW x \in Side PROVE replica[x] \in 1 .. Len(db)
        OBVIOUS
      <4>2. replica[s] + 1 \in 1 .. Len(db)
        BY <3>1, <4>1, DatabaseType
      <4> QED BY <3>2, <4>1, <4>2
    <3>4. replica' \in [Side -> Nat]
      <4>1. replica[s] + 1 \in Nat
        OBVIOUS
      <4> QED BY <3>1, <4>1
    <3> QED BY <3>1, <3>3, <3>4
  <2> QED BY <1>9, <2>1, <2>2 DEF Cache
<1> QED BY <1>1, <1>2, <1>3, <1>4, <1>5, <1>7, <1>8, <1>9 DEF Next, Pair, vars, writeVars, dbVars,
             cacheVars

LEMMA PokeSide ==
  ASSUME OracleTypes, MatInv, NEW s \in Side,
         NEW w \in {cvr[s], Append(cvr[s], View(s))}, PokeTo(s, w)
  PROVE  SideInv(w, down'[s], "open", state[s], got[s], cookie[s], pending_base[s], Len(w))
<1> DEFINE b == IF s = "mirror" /\ fault = "chain" THEN 0 ELSE sent[s]
<1>1. b \in Nat /\ View(s) \in Content
  BY ViewType DEF OracleTypes
<1>2. SideInv(cvr[s], <<>>, "open", state[s], got[s], cookie[s], pending_base[s], sent[s])
  BY DEF MatInv, PokeTo
<1>3. sent[s] < Len(w)
  BY DEF PokeTo
<1>4. down'[s] = WholePoke(w, sent[s], b)
  BY DEF PokeTo, OracleTypes
<1> HIDE DEF b
<1> QED BY <1>1, <1>2, <1>3, <1>4, PokeKeeps

LEMMA SideTypesKept ==
  ASSUME ~Cancels, OracleTypes, MatInv, [Next]_vars
  PROVE  SideVarTypes'
<1> DEFINE sideVars == <<state, got, cookie, pending_base, chain_violation, lmid_acked, conn, down, cvr, sent>>
<1> USE DEF OracleTypes, SideVarTypes
<1>1. CASE UNCHANGED sideVars
  BY <1>1 DEF matVars
<1>2. ASSUME NEW s \in Side, OpenSocket(s) \/ OpenSocketFails(s)
      PROVE  SideVarTypes'
  <2>1. <<>> \in Seq(Frame)
    OBVIOUS
  <2>2. /\ UNCHANGED <<state, got, cookie, pending_base, chain_violation, lmid_acked, cvr>>
        /\ conn' \in [Side -> {"none", "open", "dropped"}] /\ down' \in [Side -> Seq(Frame)]
        /\ sent' \in [Side -> Nat]
    BY <1>2, <2>1 DEF OpenSocket, OpenSocketFails, ResumePoint, matVars, cacheVars
  <2> QED BY <2>2
<1>3. CASE Away
  <2>1. <<>> \in Seq(Frame)
    OBVIOUS
  <2>2. /\ UNCHANGED <<state, got, cookie, pending_base, chain_violation, lmid_acked, cvr, sent>>
        /\ conn' \in [Side -> {"none", "open", "dropped"}] /\ down' \in [Side -> Seq(Frame)]
    BY <1>3, <2>1 DEF Away, matVars, cacheVars
  <2> QED BY <2>2
<1>4. CASE Churn \/ ChurnMirror \/ ChurnEnds
  BY <1>1, <1>4 DEF Churn, ChurnMirror, SendRaises, ChurnEnds, matVars, netVars, cacheVars
<1>5. CASE WriteWhileAway \/ Reconnect \/ Compare \/ TimeUp
  BY <1>1, <1>5 DEF WriteWhileAway, Reconnect, Compare, TimeUp, matVars, netVars, cacheVars
<1>6. CASE Mutate \/ MutationLands \/ Done
  BY <1>1, <1>6 DEF Mutate, MutationLands, Done, vars, matVars, netVars, cacheVars
<1>7. ASSUME NEW s \in Side, OnPokeStart(s)
      PROVE  SideVarTypes'
  <2>1. down[s] # <<>> /\ Head(down[s]).tag = "pokeStart"
    BY <1>7 DEF OnPokeStart, Receive
  <2>2. SideTypes(cvr[s], Tail(down[s]), state[s], got[s], cookie[s], Head(down[s]).base, sent[s])
    BY <2>1, StartKeeps DEF MatInv, SideInv
  <2> QED BY <1>7, <2>2 DEF OnPokeStart, Receive, SideTypes, cacheVars
<1>8. ASSUME NEW s \in Side, OnPokePart(s)
      PROVE  SideVarTypes'
  <2> DEFINE m == Head(down[s])
  <2>1. down[s] # <<>> /\ m.tag = "pokePart"
    BY <1>8 DEF OnPokePart, Receive
  <2>2. /\ SideTypes(cvr[s], Tail(down[s]), Patched(state[s], m.rows), got[s] \cup m.got,
                     cookie[s], pending_base[s], sent[s])
        /\ m.lmid \in Nat
    BY <2>1, PartKeeps DEF MatInv, SideInv
  <2>3. /\ down' = [down EXCEPT ![s] = Tail(@)]
        /\ state' = [state EXCEPT ![s] = Patched(@, m.rows)]
        /\ got' = [got EXCEPT ![s] = @ \cup m.got]
        /\ lmid_acked' = IF m.lmid > lmid_acked THEN m.lmid ELSE lmid_acked
        /\ UNCHANGED <<conn, cookie, pending_base, chain_violation, cvr, sent>>
    BY <1>8 DEF OnPokePart, Receive, cacheVars
  <2> HIDE DEF m
  <2> QED BY <2>2, <2>3 DEF SideTypes
<1>9. ASSUME NEW s \in Side, OnPokeEnd(s)
      PROVE  SideVarTypes'
  <2>1. down[s] # <<>> /\ Head(down[s]).tag = "pokeEnd"
    BY <1>9 DEF OnPokeEnd, Receive
  <2>2. /\ Head(down[s]).cookie = Len(cvr[s]) /\ ~Head(down[s]).cancel
        /\ SideTypes(cvr[s], Tail(down[s]), state[s], got[s], Head(down[s]).cookie, Unset, sent[s])
    BY <2>1, EndKeeps DEF MatInv, SideInv
  <2>3. Len(cvr[s]) \in Nat
    BY <2>2 DEF SideTypes
  <2>4. /\ down' = [down EXCEPT ![s] = Tail(@)]
        /\ cookie' = [cookie EXCEPT ![s] = Len(cvr[s])]
        /\ chain_violation' = [chain_violation EXCEPT ![s] = @ \/ BreaksChain(s)]
        /\ pending_base' = [pending_base EXCEPT ![s] = Unset]
        /\ UNCHANGED <<conn, state, got, lmid_acked, cvr, sent>>
    BY <1>9, <2>2 DEF OnPokeEnd, Receive, NextCookie, cacheVars
  <2>5. (chain_violation[s] \/ BreaksChain(s)) \in BOOLEAN
    BY DEF BreaksChain
  <2>6. chain_violation' \in [Side -> BOOLEAN]
    BY <2>4, <2>5
  <2> QED BY <2>2, <2>3, <2>4, <2>6 DEF SideTypes
<1>10. ASSUME NEW s \in Side, Poke(s)
       PROVE  SideVarTypes'
  <2>1. PICK w \in {cvr[s], Append(cvr[s], View(s))} : PokeTo(s, w)
    BY <1>10, PokeIs
  <2>3. SideTypes(w, down'[s], state[s], got[s], cookie[s], pending_base[s], Len(w))
    BY <2>1, PokeSide DEF SideInv
  <2> QED BY <2>1, <2>3 DEF PokeTo, SideTypes, matVars
<1>11. ASSUME NEW s \in Side, Drop(s)
       PROVE  SideVarTypes'
  <2>1. PICK n \in 0 .. Len(down[s]) : down' = [down EXCEPT ![s] = SubSeq(@, 1, n)]
    BY <1>11 DEF Drop
  <2>2. SideTypes(cvr[s], SubSeq(down[s], 1, n), state[s], got[s], cookie[s], pending_base[s], sent[s])
    BY CutKeeps DEF MatInv, SideInv
  <2> QED BY <1>11, <2>1, <2>2 DEF Drop, SideTypes, matVars, cacheVars
<1>12. ASSUME NEW s \in Side, Replicate(s)
       PROVE  SideVarTypes'
  BY <1>1, <1>12 DEF Replicate, matVars, netVars
<1>13. ASSUME NEW s \in Side, OnError(s) \/ Refuse(s)
       PROVE  SideVarTypes'
  BY <1>1, <1>13, ErrorsOnly DEF cacheVars
<1> QED BY <1>1, <1>2, <1>3, <1>4, <1>5, <1>6, <1>7, <1>8, <1>9, <1>10, <1>11, <1>12, <1>13
       DEF Next, Pair, Reader, Cache, vars, matVars, netVars, cacheVars

LEMMA TypesInductive ==
  ASSUME ~Cancels, OracleTypes, MatInv, [Next]_vars
  PROVE  OracleTypes'
BY RunTypesKept, SideTypesKept, WorldTypesKept
   DEF OracleTypes, RunTypes, SideVarTypes, WorldTypes

-----------------------------------------------------------------------------
(* What is materialized. *)

LEMMA MatInitial == Init => MatInv
<1> SUFFICES ASSUME Init, NEW s \in Side
             PROVE  SideInv(<<>>, <<>>, "none", NoRows, {}, 0, Unset, 0)
  BY DEF Init, MatInv, NoCookie
<1>1. VersionOf(<<>>, 0) = Nothing /\ Len(<<>>) = 0 /\ <<>> \in Seq(Content) /\ <<>> \in Seq(Frame)
  BY DEF VersionOf, NoCookie
<1>2. SideTypes(<<>>, <<>>, NoRows, {}, 0, Unset, 0)
  BY <1>1 DEF SideTypes, NoRows
<1>3. UnchangedStays(<<>>)
  BY <1>1 DEF UnchangedStays, Newest
<1>4. OnePoke(<<>>, <<>>, "none", 0, Unset, 0)
  BY <1>1 DEF OnePoke
<1>5. Materialized(<<>>, <<>>, NoRows, {}, 0, Unset)
  BY <1>1 DEF Materialized, Nothing
<1> QED BY <1>2, <1>3, <1>4, <1>5 DEF SideInv

SideOf(s) ==
  SideInv(cvr[s], down[s], conn[s], state[s], got[s], cookie[s], pending_base[s], sent[s])

LEMMA MatInductive ==
  ASSUME ~Cancels, OracleTypes, MatInv, [Next]_vars
  PROVE  MatInv'
<1> DEFINE sideVars == <<state, got, cookie, pending_base, chain_violation, lmid_acked, conn, down, cvr, sent>>
<1> SUFFICES ASSUME NEW t \in Side PROVE SideOf(t)'
  BY DEF MatInv, SideOf
<1>0. SideOf(t)
  BY DEF MatInv, SideOf
<1> USE DEF OracleTypes
<1>1. CASE UNCHANGED sideVars
  BY <1>0, <1>1 DEF matVars, SideOf
<1>2. ASSUME NEW s \in Side, OpenSocket(s)
      PROVE  SideOf(t)'
  <2>1. /\ UNCHANGED <<state, got, cookie, pending_base, cvr>>
        /\ conn' = [conn EXCEPT ![s] = "open"] /\ down' = [down EXCEPT ![s] = <<>>]
        /\ sent' = [sent EXCEPT ![s] = cookie[s]]
    BY <1>2 DEF OpenSocket, ResumePoint, matVars
  <2>2. CASE t = s
    BY <1>0, <2>1, <2>2, ConnectKeeps DEF SideOf
  <2>3. CASE t # s
    BY <1>0, <2>1, <2>3 DEF SideOf
  <2> QED BY <2>2, <2>3
<1>3. ASSUME UNCHANGED <<matVars, cvr, sent>>, conn' = [x \in Side |-> "none"],
             down' = [x \in Side |-> <<>>]
      PROVE  SideOf(t)'
  BY <1>0, <1>3, ConnectKeeps DEF SideOf, matVars
<1>4. CASE Churn \/ ChurnMirror \/ ChurnEnds
  BY <1>1, <1>4 DEF Churn, ChurnMirror, SendRaises, ChurnEnds, matVars, netVars, cacheVars
<1>5. CASE WriteWhileAway \/ Reconnect \/ Compare \/ TimeUp
  BY <1>1, <1>5 DEF WriteWhileAway, Reconnect, Compare, TimeUp, matVars, netVars, cacheVars
<1>6. CASE Mutate \/ MutationLands \/ Done
  BY <1>1, <1>6 DEF Mutate, MutationLands, Done, vars, matVars, netVars, cacheVars
<1>7. ASSUME NEW s \in Side, OnPokeStart(s)
      PROVE  SideOf(t)'
  <2>1. down[s] # <<>> /\ Head(down[s]).tag = "pokeStart"
    BY <1>7 DEF OnPokeStart, Receive
  <2>2. /\ down' = [down EXCEPT ![s] = Tail(@)]
        /\ pending_base' = [pending_base EXCEPT ![s] = Head(down[s]).base]
        /\ UNCHANGED <<conn, state, got, cookie, cvr, sent>>
    BY <1>7 DEF OnPokeStart, Receive, cacheVars
  <2>3. CASE t = s
    BY <1>0, <2>1, <2>2, <2>3, StartKeeps DEF SideOf
  <2>4. CASE t # s
    BY <1>0, <2>2, <2>4 DEF SideOf
  <2> QED BY <2>3, <2>4
<1>8. ASSUME NEW s \in Side, OnPokePart(s)
      PROVE  SideOf(t)'
  <2>1. down[s] # <<>> /\ Head(down[s]).tag = "pokePart"
    BY <1>8 DEF OnPokePart, Receive
  <2>2. /\ down' = [down EXCEPT ![s] = Tail(@)]
        /\ state' = [state EXCEPT ![s] = Patched(@, Head(down[s]).rows)]
        /\ got' = [got EXCEPT ![s] = @ \cup Head(down[s]).got]
        /\ UNCHANGED <<conn, cookie, pending_base, cvr, sent>>
    BY <1>8 DEF OnPokePart, Receive, cacheVars
  <2>3. CASE t = s
    BY <1>0, <2>1, <2>2, <2>3, PartKeeps DEF SideOf
  <2>4. CASE t # s
    BY <1>0, <2>2, <2>4 DEF SideOf
  <2> QED BY <2>3, <2>4
<1>9. ASSUME NEW s \in Side, OnPokeEnd(s)
      PROVE  SideOf(t)'
  <2>1. down[s] # <<>> /\ Head(down[s]).tag = "pokeEnd"
    BY <1>9 DEF OnPokeEnd, Receive
  <2>2. ~Head(down[s]).cancel
    BY <2>1, EndKeeps DEF MatInv
  <2>3. /\ down' = [down EXCEPT ![s] = Tail(@)]
        /\ cookie' = [cookie EXCEPT ![s] = Head(down[s]).cookie]
        /\ pending_base' = [pending_base EXCEPT ![s] = Unset]
        /\ UNCHANGED <<conn, state, got, cvr, sent>>
    BY <1>9, <2>2 DEF OnPokeEnd, Receive, NextCookie, cacheVars
  <2>4. CASE t = s
    BY <1>0, <2>1, <2>3, <2>4, EndKeeps DEF SideOf
  <2>5. CASE t # s
    BY <1>0, <2>3, <2>5 DEF SideOf
  <2> QED BY <2>4, <2>5
<1>10. ASSUME NEW s \in Side, Poke(s)
       PROVE  SideOf(t)'
  <2>1. PICK w \in {cvr[s], Append(cvr[s], View(s))} : PokeTo(s, w)
    BY <1>10, PokeIs
  <2>2. SideInv(w, down'[s], "open", state[s], got[s], cookie[s], pending_base[s], Len(w))
    BY <2>1, PokeSide
  <2>3. /\ conn[s] = "open" /\ cvr' = [cvr EXCEPT ![s] = w] /\ sent' = [sent EXCEPT ![s] = Len(w)]
        /\ \A x \in Side : x # s => down'[x] = down[x]
        /\ UNCHANGED <<conn, state, got, cookie, pending_base>>
    BY <2>1 DEF PokeTo, matVars
  <2>4. CASE t = s
    BY <2>2, <2>3, <2>4 DEF SideOf
  <2>5. CASE t # s
    BY <1>0, <2>3, <2>5 DEF SideOf
  <2> QED BY <2>4, <2>5
<1>11. ASSUME NEW s \in Side, Drop(s)
       PROVE  SideOf(t)'
  <2>1. PICK n \in 0 .. Len(down[s]) : down' = [down EXCEPT ![s] = SubSeq(@, 1, n)]
    BY <1>11 DEF Drop
  <2>2. /\ conn' = [conn EXCEPT ![s] = "dropped"]
        /\ UNCHANGED <<state, got, cookie, pending_base, cvr, sent>>
    BY <1>11 DEF Drop, matVars, cacheVars
  <2>3. CASE t = s
    BY <1>0, <2>1, <2>2, <2>3, CutKeeps DEF SideOf
  <2>4. CASE t # s
    BY <1>0, <2>1, <2>2, <2>4 DEF SideOf
  <2> QED BY <2>3, <2>4
<1>12. ASSUME NEW s \in Side, Replicate(s)
       PROVE  SideOf(t)'
  BY <1>1, <1>12 DEF Replicate, matVars, netVars
<1>13. ASSUME NEW s \in Side, OpenSocketFails(s)
       PROVE  SideOf(t)'
  BY <1>3, <1>13 DEF OpenSocketFails, cacheVars
<1>14. CASE Away
  BY <1>3, <1>14 DEF Away, cacheVars
<1>15. ASSUME NEW s \in Side, OnError(s) \/ Refuse(s)
       PROVE  SideOf(t)'
  BY <1>1, <1>15, ErrorsOnly DEF cacheVars
<1> QED BY <1>1, <1>2, <1>4, <1>5, <1>6, <1>7, <1>8, <1>9, <1>10, <1>11, <1>12, <1>13, <1>14, <1>15
       DEF Next, Pair, Reader, Cache, vars, matVars, netVars, cacheVars

(* DiffOracle.StateIsVersion: between pokes a side of the pair holds exactly the *)
(* rows of the version its cookie names and knows every query that version got,  *)
(* wherever its connection was cut (Materializer.apply, run_pair's resume).      *)
THEOREM StateIsVersionHolds ==
  ASSUME ~Cancels
  PROVE  Spec => []StateIsVersion
<1>1. Init => OracleTypes /\ MatInv
  BY TypesInitial, MatInitial
<1>2. OracleTypes /\ MatInv /\ [Next]_vars => (OracleTypes /\ MatInv)'
  BY TypesInductive, MatInductive
<1>3. MatInv => StateIsVersion
  BY DEF MatInv, SideInv, Materialized, StateIsVersion, Version, VersionOf
<1> QED BY <1>1, <1>2, <1>3, PTL DEF Spec

-----------------------------------------------------------------------------
(* Where run_pair is, and what the connections and the subscriptions are there. *)

LEMMA WaitedQuiet ==
  ASSUME Prompt, Waited
  PROVE  \A s \in Side : \/ conn[s] = "dropped" /\ down[s] = <<>>
                         \/ CaughtUp(s)
BY DEF Waited, BothQuiet, GoesQuiet

LEMMA PhaseInitial == Init => PhaseInv
BY SidesAre DEF Init, PhaseInv, FirstConnection, Running

(* What befell a write stays on record. *)
LEMMA MishapsStay ==
  ASSUME [Next]_vars
  PROVE  mishaps \subseteq mishaps'
<1>1. CASE UNCHANGED mishaps
  BY <1>1
<1>2. ASSUME NEW s \in Side, OpenSocket(s) \/ OpenSocketFails(s)
      PROVE  UNCHANGED mishaps
  BY <1>2 DEF OpenSocket, OpenSocketFails, writeVars
<1>3. CASE Churn \/ ChurnMirror \/ ChurnEnds \/ Reconnect \/ Compare
  BY <1>1, <1>3 DEF Churn, ChurnMirror, SendRaises, ChurnEnds, Reconnect, Compare, writeVars
<1>4. CASE WriteWhileAway \/ MutationLands
  BY <1>4 DEF WriteWhileAway, MutationLands, Post
<1>5. CASE Away
  BY <1>5 DEF Away
<1>6. CASE TimeUp \/ Mutate \/ Done
  BY <1>1, <1>6 DEF TimeUp, Mutate, Done, vars, writeVars
<1>7. ASSUME NEW s \in Side, Reader(s) \/ Cache(s) \/ Refuse(s)
      PROVE  UNCHANGED mishaps
  BY <1>7 DEF Reader, OnPokeStart, OnPokePart, OnPokeEnd, OnError, Receive, Cache, Replicate, Poke,
              Refuse, writeVars
<1>8. ASSUME NEW s \in Side, Drop(s)
      PROVE  mishaps \subseteq mishaps'
  BY <1>8 DEF Drop
<1> QED BY <1>1, <1>2, <1>3, <1>4, <1>5, <1>6, <1>7, <1>8 DEF Next, Pair, vars, writeVars

LEMMA PhaseInductive ==
  ASSUME Prompt, OracleTypes, PhaseInv, [Next]_vars
  PROVE  PhaseInv'
<1> USE SidesAre DEF PhaseInv, FirstConnection, Running
<1>0. mishaps \subseteq mishaps'
  BY MishapsStay
<1>1. CASE UNCHANGED <<pc, cycles, writes, mid, posting, conn, fault, conn_error, resume_error, verdict>>
  BY <1>0, <1>1 DEF Reconnects
<1>2. ASSUME NEW s \in Side, OpenSocket(s)
      PROVE  PhaseInv'
  <2>1. /\ UNCHANGED <<writes, mid, posting, mishaps, fault, conn_error, resume_error, verdict>>
        /\ conn' = [conn EXCEPT ![s] = "open"]
        /\ \/ s = "primary" /\ pc = "open_primary" /\ pc' = "open_mirror" /\ cycles' = cycles
           \/ s = "mirror" /\ pc = "open_mirror" /\ pc' = "churn" /\ cycles' = cycles
           \/ s = "primary" /\ pc = "reopen_primary" /\ pc' = "reopen_mirror" /\ cycles' = cycles
           \/ s = "mirror" /\ pc = "reopen_mirror" /\ pc' = "requiesce" /\ cycles' = cycles + 1
    BY <1>2 DEF OpenSocket, Opening, Side, writeVars
  <2>2. cycles + 1 # 0
    BY DEF OracleTypes
  <2>3. /\ \A x \in Side : conn'[x] = "dropped" => conn[x] = "dropped"
        /\ s = "primary" => conn'["mirror"] = conn["mirror"]
    BY <2>1 DEF OracleTypes
  <2> QED BY <2>1, <2>2, <2>3 DEF Reconnects
<1>3. ASSUME NEW s \in Side, OpenSocketFails(s)
      PROVE  PhaseInv'
  <2>1. \A x \in Side : conn'[x] = "none"
    BY <1>3 DEF OpenSocketFails
  <2>2. pc' = "done" /\ UNCHANGED <<mid, posting, fault>>
        /\ (pc \in {"open_primary", "open_mirror"} => posting = 0)
    BY <1>3 DEF OpenSocketFails, Conclude, Opening, writeVars, cacheVars
  <2> QED BY <2>1, <2>2
<1>4. CASE Churn \/ ChurnMirror \/ ChurnEnds
  BY <1>4 DEF Churn, ChurnMirror, SendRaises, ChurnEnds, writeVars, netVars, cacheVars
<1>5. CASE WriteWhileAway \/ Reconnect
  BY <1>0, <1>5 DEF WriteWhileAway, Reconnect, writeVars, netVars, cacheVars
<1>6. CASE TimeUp \/ Done
  BY <1>1, <1>6 DEF TimeUp, Done, vars, runVars, writeVars, netVars, cacheVars
<1>7. CASE Mutate \/ MutationLands
  BY <1>0, <1>7 DEF Mutate, MutationLands, runVars, netVars, cacheVars
<1>8. CASE Away
  <2>1. /\ \A x \in Side : conn'[x] = "none"
        /\ UNCHANGED <<mid, posting, fault>> /\ (posting' # 0 => mishaps' # {})
    BY <1>8 DEF Away, cacheVars
  <2> QED BY <1>8, <2>1 DEF Away
<1>9. CASE Compare
  <2>1. pc' = "done" /\ UNCHANGED <<mid, posting, mishaps, conn, fault, cycles>>
    BY <1>9 DEF Compare, Conclude, writeVars, netVars, cacheVars
  <2>2. ASSUME NEW x \in Side, conn[x] = "dropped", Reconnects
        PROVE  FALSE
    <3>1. pc = "quiesce" /\ cycles = Cycles /\ DropIn # {}
      BY <1>9, <2>2 DEF Compare
    <3> QED BY <2>2, <3>1, OracleAssumption DEF Reconnects
  <2> QED BY <2>1, <2>2 DEF Reconnects
<1>10. ASSUME NEW s \in Side, Drop(s)
       PROVE  PhaseInv'
  <2>1. /\ pc \in DropIn /\ conn[s] = "open" /\ fault = "drop"
        /\ conn' = [conn EXCEPT ![s] = "dropped"]
        /\ mishaps' = (IF s = "primary" THEN mishaps \cup {"dropped"} ELSE mishaps)
        /\ UNCHANGED <<pc, cycles, writes, mid, posting, fault, conn_error, resume_error, verdict>>
    BY <1>10 DEF Drop, runVars, cacheVars
  <2>2. Reconnects => pc \in Running
    BY <2>1, OracleAssumption DEF Reconnects, Listening
  <2>3. \A x \in Side : conn'[x] = "dropped" => x = s \/ conn[x] = "dropped"
    BY <2>1 DEF OracleTypes
  <2>4. \A x \in Side : conn[x] = "none" => conn'[x] = "none"
    BY <2>1 DEF OracleTypes
  <2>5. conn'["primary"] = "dropped" => mishaps' # {}
    BY <2>1, <2>3
  <2> QED BY <1>0, <2>1, <2>2, <2>3, <2>4, <2>5 DEF Reconnects
<1>11. ASSUME NEW s \in Side, Reader(s) \/ Cache(s) \/ Refuse(s)
       PROVE  PhaseInv'
  BY <1>1, <1>11, ErrorsOnly DEF Reader, OnPokeStart, OnPokePart, OnPokeEnd, Receive, Cache,
                                 Replicate, Poke, runVars, writeVars, netVars, cacheVars
<1> QED BY <1>1, <1>2, <1>3, <1>4, <1>5, <1>6, <1>7, <1>8, <1>9, <1>10, <1>11
       DEF Next, Pair, vars, runVars, writeVars, netVars, cacheVars

LEMMA WantInitial == Init => WantInv
BY SidesAre DEF Init, WantInv

LEMMA WantInductive ==
  ASSUME Prompt, OracleTypes, PhaseInv, WantInv, [Next]_vars
  PROVE  WantInv'
<1> USE SidesAre DEF WantInv
<1>1. CASE UNCHANGED <<pc, active, want, conn>>
  BY <1>1
<1>2. ASSUME NEW s \in Side, OpenSocket(s)
      PROVE  WantInv'
  <2>1. /\ want' = [want EXCEPT ![s] = @ \cup active] /\ active' = active
        /\ \/ s = "primary" /\ pc = "open_primary" /\ pc' = "open_mirror"
           \/ s = "mirror" /\ pc = "open_mirror" /\ pc' = "churn"
           \/ s = "primary" /\ pc = "reopen_primary" /\ pc' = "reopen_mirror"
           \/ s = "mirror" /\ pc = "reopen_mirror" /\ pc' = "requiesce"
    BY <1>2 DEF OpenSocket, Opening, Side, Declared
  <2>2. \A x \in Side : want'[x] = IF x = s THEN want[s] \cup active ELSE want[x]
    BY <2>1 DEF OracleTypes
  <2> QED BY <2>1, <2>2
<1>3. ASSUME NEW s \in Side, OpenSocketFails(s)
      PROVE  WantInv'
  BY <1>3 DEF OpenSocketFails, Conclude, cacheVars
<1>4. CASE Churn
  <2>1. want["primary"] = want["mirror"]
    BY <1>4 DEF Churn
  <2>2. CASE Deliver("primary") /\ pc' = "churn_mirror"
    <3>1. want' = [want EXCEPT !["primary"] = @ \cup active']
      BY <2>2 DEF Deliver
    <3>2. want'["primary"] = want["primary"] \cup active' /\ want'["mirror"] = want["mirror"]
      BY <3>1 DEF OracleTypes
    <3> QED BY <2>1, <2>2, <3>2
  <2>3. CASE SendRaises("primary")
    <3>1. UNCHANGED <<conn, want>> /\ pc' = "quiesce" /\ conn["primary"] = "dropped"
      BY <1>4, <2>3 DEF Churn, SendRaises
    <3> QED BY <2>1, <2>3, <3>1
  <2> QED BY <1>4, <2>2, <2>3 DEF Churn
<1>5. CASE ChurnMirror
  <2>1. UNCHANGED <<active, conn>> /\ active \subseteq want["primary"]
    BY <1>5 DEF ChurnMirror
  <2>2. CASE Deliver("mirror") /\ pc' = "churn"
    <3>1. want' = [want EXCEPT !["mirror"] = @ \cup active']
      BY <2>2 DEF Deliver
    <3>2. want'["mirror"] = want["mirror"] \cup active' /\ want'["primary"] = want["primary"]
      BY <3>1 DEF OracleTypes
    <3> QED BY <2>1, <2>2, <3>2
  <2>3. CASE SendRaises("mirror")
    BY <2>1, <2>3 DEF SendRaises
  <2> QED BY <1>5, <2>2, <2>3 DEF ChurnMirror
<1>6. CASE ChurnEnds
  <2>1. \A s \in Side : active \subseteq want[s]
    BY <1>6 DEF ChurnEnds, Side
  <2>2. UNCHANGED <<active, want>> /\ pc' = "quiesce"
    BY <1>6 DEF ChurnEnds, cacheVars
  <2> QED BY <2>1, <2>2
<1>7. CASE WriteWhileAway \/ Reconnect \/ Away \/ Compare
  BY <1>7 DEF WriteWhileAway, Reconnect, Away, Compare, Conclude, cacheVars
<1>8. CASE TimeUp \/ Done \/ Mutate \/ MutationLands
  BY <1>1, <1>8 DEF TimeUp, Done, Mutate, MutationLands, vars, runVars, netVars, cacheVars
<1>9. ASSUME NEW s \in Side, Drop(s)
      PROVE  WantInv'
  <2>1. /\ conn' = [conn EXCEPT ![s] = "dropped"] /\ UNCHANGED <<pc, active, want>>
    BY <1>9 DEF Drop, runVars, cacheVars
  <2>2. conn'[s] = "dropped"
    BY <2>1 DEF OracleTypes
  <2> QED BY <2>1, <2>2
<1>10. ASSUME NEW s \in Side, Reader(s) \/ Cache(s) \/ Refuse(s)
       PROVE  WantInv'
  BY <1>1, <1>10, ErrorsOnly DEF Reader, OnPokeStart, OnPokePart, OnPokeEnd, Receive, Cache,
                                 Replicate, Poke, runVars, netVars, cacheVars
<1> QED BY <1>1, <1>2, <1>3, <1>4, <1>5, <1>6, <1>7, <1>8, <1>9, <1>10
       DEF Next, Pair, vars, runVars, netVars, cacheVars

-----------------------------------------------------------------------------
(* The queries known to the sides. *)

LEMMA WantGrows ==
  ASSUME OracleTypes, [Next]_vars
  PROVE  fault' = fault /\ \A s \in Side : want[s] \subseteq want'[s]
<1>0. (Churn => fault' = fault) /\ (ChurnMirror => fault' = fault)
  BY Zenon DEF Churn, ChurnMirror
<1> USE DEF OracleTypes
<1>1. CASE UNCHANGED <<want, fault>>
  BY <1>1
<1>2. ASSUME NEW s \in Side, OpenSocket(s)
      PROVE  fault' = fault /\ \A x \in Side : want[x] \subseteq want'[x]
  <2>1. fault' = fault /\ want' = [want EXCEPT ![s] = @ \cup active]
    BY <1>2 DEF OpenSocket, Declared
  <2> QED BY <2>1
<1>3. CASE Churn \/ ChurnMirror
  <2>1. fault' = fault
    BY <1>0, <1>3, Zenon
  <2>2. want' = want \/ \E s \in Side : want' = [want EXCEPT ![s] = @ \cup active']
    BY <1>3, SidesAre DEF Churn, ChurnMirror, Deliver, SendRaises
  <2> QED BY <2>1, <2>2
<1>4. CASE ChurnEnds \/ WriteWhileAway \/ Reconnect \/ Away \/ Compare
  BY <1>1, <1>4 DEF ChurnEnds, WriteWhileAway, Reconnect, Away, Compare, cacheVars
<1>5. CASE TimeUp \/ Done \/ Mutate \/ MutationLands
  BY <1>1, <1>5 DEF TimeUp, Done, Mutate, MutationLands, vars, cacheVars
<1>6. ASSUME NEW s \in Side, Reader(s) \/ Cache(s) \/ Refuse(s) \/ Drop(s) \/ OpenSocketFails(s)
      PROVE  fault' = fault /\ \A x \in Side : want[x] \subseteq want'[x]
  BY <1>1, <1>6, ErrorsOnly DEF Reader, OnPokeStart, OnPokePart, OnPokeEnd, Receive, Cache,
                                Replicate, Poke, Drop, OpenSocketFails, cacheVars
<1> QED BY <1>1, <1>2, <1>3, <1>4, <1>5, <1>6 DEF Next, Pair, vars, cacheVars

(* Only the part of a poke changes what is known, only a poke the versions. *)
LEMMA GotSteps ==
  ASSUME OracleTypes, [Next]_vars, NEW t \in Side
  PROVE  /\ got'[t] = got[t] \/ OnPokePart(t)
         /\ cvr'[t] = cvr[t] \/ Poke(t)
<1> USE DEF OracleTypes
<1>1. CASE UNCHANGED <<got, cvr>>
  BY <1>1
<1>2. ASSUME NEW s \in Side, OpenSocket(s) \/ OpenSocketFails(s)
      PROVE  UNCHANGED <<got, cvr>>
  BY <1>2 DEF OpenSocket, OpenSocketFails, matVars, cacheVars
<1>3. CASE Churn \/ ChurnMirror \/ ChurnEnds
  BY <1>1, <1>3 DEF Churn, ChurnMirror, SendRaises, ChurnEnds, matVars, cacheVars
<1>4. CASE WriteWhileAway \/ Reconnect \/ Away \/ Compare
  BY <1>1, <1>4 DEF WriteWhileAway, Reconnect, Away, Compare, matVars, cacheVars
<1>5. CASE TimeUp \/ Done \/ Mutate \/ MutationLands
  BY <1>1, <1>5 DEF TimeUp, Done, Mutate, MutationLands, vars, matVars, cacheVars
<1>6. ASSUME NEW s \in Side, OnPokeStart(s) \/ OnPokeEnd(s) \/ Replicate(s) \/ Drop(s)
      PROVE  UNCHANGED <<got, cvr>>
  BY <1>6 DEF OnPokeStart, OnPokeEnd, Receive, Replicate, Drop, matVars, cacheVars
<1>7. ASSUME NEW s \in Side, OnPokePart(s)
      PROVE  cvr' = cvr /\ (t # s => got'[t] = got[t])
  BY <1>7 DEF OnPokePart, Receive, cacheVars
<1>8. ASSUME NEW s \in Side, Poke(s)
      PROVE  got' = got /\ (t # s => cvr'[t] = cvr[t])
  BY <1>8 DEF Poke, matVars
<1>9. ASSUME NEW s \in Side, OnError(s) \/ Refuse(s)
      PROVE  UNCHANGED <<got, cvr>>
  BY <1>9, ErrorsOnly DEF cacheVars
<1> QED BY <1>1, <1>2, <1>3, <1>4, <1>5, <1>6, <1>7, <1>8, <1>9
       DEF Next, Pair, Reader, Cache, vars, matVars, cacheVars

LEMMA GotInitial == Init => GotInv
BY DEF Init, GotInv, Newest, VersionOf, Nothing, NoCookie

LEMMA GotInductive ==
  ASSUME ~Cancels, OracleTypes, MatInv, GotInv, [Next]_vars
  PROVE  GotInv'
<1> SUFFICES ASSUME NEW t \in Side
             PROVE  /\ got'[t] \subseteq Served(t)' \ Late(t)'
                    /\ Newest(cvr'[t]).got \subseteq Served(t)' \ Late(t)'
  BY DEF GotInv, Newest, VersionOf, Nothing, NoRows
<1>1. Served(t) \subseteq Served(t)' /\ Late(t)' = Late(t)
  BY WantGrows DEF Late, Served
<1>2. got[t] \subseteq Served(t) \ Late(t) /\ Newest(cvr[t]).got \subseteq Served(t) \ Late(t)
  BY DEF GotInv
<1>3. ASSUME OnPokePart(t)
      PROVE  got'[t] \subseteq Served(t) \ Late(t)
  <2>1. /\ down[t] # <<>> /\ Head(down[t]).tag = "pokePart"
        /\ got' = [got EXCEPT ![t] = @ \cup Head(down[t]).got]
    BY <1>3 DEF OnPokePart, Receive
  <2>2. Len(down[t]) \in Nat /\ Len(down[t]) > 0 /\ Head(down[t]) = down[t][1]
    BY <2>1 DEF OracleTypes
  <2>3. FrameSays(cvr[t], cookie[t], Head(down[t]))
    BY <2>2 DEF MatInv, SideInv, OnePoke
  <2>4. Head(down[t]).got \subseteq Newest(cvr[t]).got
    BY <2>1, <2>3 DEF FrameSays
  <2>5. got'[t] = got[t] \cup Head(down[t]).got
    BY <2>1 DEF OracleTypes
  <2> QED BY <1>2, <2>4, <2>5
<1>4. ASSUME Poke(t)
      PROVE  Newest(cvr'[t]).got \subseteq Served(t) \ Late(t)
  <2>1. PICK w \in {cvr[t], Append(cvr[t], View(t))} : PokeTo(t, w)
    BY <1>4, PokeIs
  <2>2. cvr'[t] = w
    BY <2>1 DEF PokeTo, OracleTypes
  <2>3. CASE w = cvr[t]
    BY <1>2, <2>2, <2>3
  <2>4. CASE w = Append(cvr[t], View(t))
    <3>1. Newest(w) = View(t)
      BY <2>4, ViewType, OneMoreVersion DEF MatInv, SideInv, SideTypes
    <3>2. View(t).got = Served(t) \ Late(t)
      BY DEF View, Late
    <3> QED BY <2>2, <3>1, <3>2
  <2> QED BY <2>1, <2>3, <2>4
<1> QED BY <1>1, <1>2, <1>3, <1>4, GotSteps

-----------------------------------------------------------------------------
(* The chain. *)

Breaks(s) == s = "mirror" /\ fault = "chain"
ChainOf(s) ==
  Chained(cvr[s], down[s], cookie[s], pending_base[s], chain_violation[s], Breaks(s))

LEMMA ChainInitial == Init => ChainInv
BY DEF Init, ChainInv, Chained, NoCookie, Unset

LEMMA ChainInductive ==
  ASSUME ~Cancels, Prompt, OracleTypes, MatInv, PhaseInv, ChainInv, [Next]_vars
  PROVE  ChainInv'
<1> DEFINE sideVars == <<state, got, cookie, pending_base, chain_violation, lmid_acked, down, cvr>>
<1> SUFFICES ASSUME NEW t \in Side PROVE ChainOf(t)'
  BY DEF ChainInv, ChainOf, Breaks
<1>0. /\ ChainOf(t) /\ Breaks(t)' = Breaks(t) /\ (Breaks(t) => conn[t] # "dropped")
      /\ SideOf(t)
  BY WantGrows DEF ChainInv, ChainOf, Breaks, PhaseInv, MatInv, SideOf
<1> USE DEF OracleTypes
<1>1. CASE UNCHANGED sideVars
  BY <1>0, <1>1 DEF matVars, ChainOf
<1>2. ASSUME NEW s \in Side, OpenSocket(s)
      PROVE  ChainOf(t)'
  <2>1. /\ UNCHANGED <<cookie, pending_base, cvr, chain_violation>>
        /\ down' = [down EXCEPT ![s] = <<>>] /\ conn[s] = "none"
    BY <1>2, SidesAre DEF OpenSocket, matVars, Opening, PhaseInv, Side
  <2>2. down[s] = <<>>
    BY <2>1 DEF MatInv, SideInv, OnePoke
  <2>3. down' = down
    BY <2>1, <2>2
  <2> QED BY <1>0, <2>1, <2>3 DEF ChainOf
<1>3. ASSUME NEW s \in Side, OpenSocketFails(s)
      PROVE  ChainOf(t)'
  <2>1. ~Breaks(t) /\ UNCHANGED <<cookie, pending_base, cvr, chain_violation>> /\ down'[t] = <<>>
    BY <1>3 DEF OpenSocketFails, Breaks, matVars, cacheVars
  <2> QED BY <1>0, <2>1 DEF ChainOf, Chained
<1>4. CASE Away
  <2>1. UNCHANGED <<cookie, pending_base, cvr, chain_violation>> /\ down'[t] = <<>>
    BY <1>4 DEF Away, matVars, cacheVars
  <2>2. Breaks(t) => down[t] = <<>>
    BY <1>0, <1>4, WaitedQuiet DEF Away, CaughtUp
  <2> QED BY <1>0, <2>1, <2>2 DEF ChainOf, Chained
<1>5. CASE Churn \/ ChurnMirror \/ ChurnEnds
  BY <1>1, <1>5 DEF Churn, ChurnMirror, SendRaises, ChurnEnds, matVars, netVars, cacheVars
<1>6. CASE WriteWhileAway \/ Reconnect \/ Compare \/ TimeUp
  BY <1>1, <1>6 DEF WriteWhileAway, Reconnect, Compare, TimeUp, matVars, netVars, cacheVars
<1>7. CASE Mutate \/ MutationLands \/ Done
  BY <1>1, <1>7 DEF Mutate, MutationLands, Done, vars, matVars, netVars, cacheVars
<1>8. ASSUME NEW s \in Side, Replicate(s)
      PROVE  ChainOf(t)'
  BY <1>1, <1>8 DEF Replicate, matVars, netVars
<1>9. ASSUME NEW s \in Side, Drop(s)
      PROVE  ChainOf(t)'
  <2>1. PICK n \in 0 .. Len(down[s]) : down' = [down EXCEPT ![s] = SubSeq(@, 1, n)]
    BY <1>9 DEF Drop
  <2>2. ~Breaks(t) /\ UNCHANGED <<cookie, pending_base, cvr, chain_violation>>
    BY <1>9 DEF Drop, Breaks, matVars, cacheVars
  <2>3. \A i \in 1 .. Len(down'[t]) : i \in 1 .. Len(down[t]) /\ down'[t][i] = down[t][i]
    <3>1. CASE t = s
      BY <2>1, <3>1
    <3>2. CASE t # s
      BY <2>1, <3>2
    <3> QED BY <3>1, <3>2
  <2> QED BY <1>0, <2>2, <2>3 DEF ChainOf, Chained
<1>10. ASSUME NEW s \in Side, Poke(s)
       PROVE  ChainOf(t)'
  <2>1. PICK w \in {cvr[s], Append(cvr[s], View(s))} : PokeTo(s, w)
    BY <1>10, PokeIs
  <2>2. UNCHANGED <<cookie, pending_base, chain_violation>>
    BY <2>1 DEF PokeTo, matVars
  <2>3. CASE t # s
    BY <1>0, <2>1, <2>2, <2>3 DEF PokeTo, ChainOf
  <2>4. CASE t = s
    <3>1. /\ down[t] = <<>> /\ conn[t] = "open" /\ cvr'[t] = w /\ sent[t] = cookie[t]
          /\ down'[t] = WholePoke(w, sent[t], IF Breaks(t) THEN 0 ELSE sent[t])
      BY <1>0, <2>1, <2>4 DEF PokeTo, SideOf, SideInv, OnePoke, Breaks
    <3>2. cvr[t] \in Seq(Content) /\ View(t) \in Content
      BY ViewType
    <3>3. Len(w) \in Nat /\ Len(cvr[t]) \in Nat /\ Len(w) <= Len(cvr[t]) + 1
      BY <2>4, <3>2
    <3>4. /\ down'[t] # <<>> /\ Len(down'[t]) = 3
          /\ \A i \in 1 .. 3 : down'[t][i].tag = "pokeStart" =>
               down'[t][i].base = IF Breaks(t) THEN 0 ELSE cookie[t]
      <4>1. down'[t] = WholePoke(w, cookie[t], IF Breaks(t) THEN 0 ELSE cookie[t])
        BY <3>1
      <4>2. \A v, c, b : /\ WholePoke(v, c, b) # <<>> /\ Len(WholePoke(v, c, b)) = 3
                         /\ WholePoke(v, c, b)[1].base = b
                         /\ WholePoke(v, c, b)[2].tag # "pokeStart"
                         /\ WholePoke(v, c, b)[3].tag # "pokeStart"
        BY DEF WholePoke
      <4> QED BY <4>1, <4>2
    <3> QED BY <1>0, <2>2, <3>1, <3>3, <3>4 DEF ChainOf, Chained
  <2> QED BY <2>3, <2>4
<1>11. ASSUME NEW s \in Side, OnPokeStart(s) \/ OnPokePart(s)
       PROVE  ChainOf(t)'
  <2>1. /\ down[s] # <<>> /\ Head(down[s]).tag # "pokeEnd"
        /\ down' = [down EXCEPT ![s] = Tail(@)]
        /\ UNCHANGED <<cookie, chain_violation, cvr>>
        /\ pending_base'[t] = pending_base[t] \/ (t = s /\ Head(down[s]).tag = "pokeStart"
                                                /\ pending_base'[s] = Head(down[s]).base)
    BY <1>11 DEF OnPokeStart, OnPokePart, Receive, cacheVars
  <2>2. CASE t # s
    BY <1>0, <2>1, <2>2 DEF ChainOf
  <2>3. CASE t = s
    <3>1. /\ Len(down[t]) \in Nat /\ Len(down[t]) > 0 /\ Head(down[t]) = down[t][1]
          /\ down'[t] \in Seq(Frame) /\ Len(down'[t]) = Len(down[t]) - 1
          /\ \A i \in 1 .. Len(down'[t]) : down'[t][i] = down[t][i + 1]
      BY <2>1, <2>3
    <3>2. pending_base'[t] \in {Unset, IF Breaks(t) THEN 0 ELSE cookie[t]}
      BY <1>0, <2>1, <2>3, <3>1 DEF ChainOf, Chained
    <3>3. ASSUME NEW i \in 1 .. Len(down'[t]), down'[t][i].tag = "pokeStart"
          PROVE  down'[t][i].base = IF Breaks(t) THEN 0 ELSE cookie[t]
      <4>1. i + 1 \in 1 .. Len(down[t]) /\ down'[t][i] = down[t][i + 1]
        BY <3>1
      <4> QED BY <1>0, <3>3, <4>1 DEF ChainOf, Chained
    <3>4. Breaks(t) => down'[t] # <<>>
      <4>0. down'[t] = <<>> => Len(down[t]) = 1
        <5>1. down'[t] = <<>> => Len(down'[t]) = 0
          OBVIOUS
        <5> QED BY <3>1, <5>1
      <4>1. SUFFICES ASSUME Breaks(t), Len(down[t]) = 1 PROVE FALSE
        BY <4>0
      <4>2. conn[t] = "open"
        BY <1>0, <2>1, <2>3, <4>1 DEF SideOf, SideInv, OnePoke
      <4>3. down[t][Len(down[t])].tag = "pokeEnd"
        BY <1>0, <2>1, <2>3, <4>2 DEF SideOf, SideInv, OnePoke
      <4> QED BY <2>1, <2>3, <3>1, <4>1, <4>3
    <3> QED BY <1>0, <2>1, <3>2, <3>3, <3>4 DEF ChainOf, Chained
  <2> QED BY <2>2, <2>3
<1>12. ASSUME NEW s \in Side, OnPokeEnd(s)
       PROVE  ChainOf(t)'
  <2>1. down[s] # <<>> /\ Head(down[s]).tag = "pokeEnd" /\ down' = [down EXCEPT ![s] = Tail(@)]
    BY <1>12 DEF OnPokeEnd, Receive
  <2>2. Head(down[s]).cookie = Len(cvr[s]) /\ ~Head(down[s]).cancel /\ Tail(down[s]) = <<>>
    BY <2>1, EndKeeps DEF MatInv
  <2>3. /\ cookie' = [cookie EXCEPT ![s] = Len(cvr[s])]
        /\ chain_violation' = [chain_violation EXCEPT ![s] = @ \/ BreaksChain(s)]
        /\ pending_base' = [pending_base EXCEPT ![s] = Unset] /\ cvr' = cvr
    BY <1>12, <2>2 DEF OnPokeEnd, Receive, NextCookie, cacheVars
  <2>4. CASE t # s
    BY <1>0, <2>1, <2>3, <2>4 DEF ChainOf
  <2>5. CASE t = s
    <3>1. /\ cookie'[t] = Len(cvr[t]) /\ pending_base'[t] = Unset /\ cvr'[t] = cvr[t]
          /\ down'[t] = <<>>
          /\ chain_violation'[t] = (chain_violation[t] \/ BreaksChain(t))
      BY <2>1, <2>2, <2>3, <2>5
    <3>2. pending_base[t] # Unset /\ cookie[t] < Len(cvr[t]) /\ Len(cvr[t]) \in Nat
      <4>1. Len(down[t]) \in Nat /\ Len(down[t]) > 0 /\ Head(down[t]) = down[t][1]
        BY <2>1, <2>5
      <4> QED BY <1>0, <2>1, <2>5, <4>1 DEF SideOf, SideInv, OnePoke
    <3>3. CASE Breaks(t)
      <4>1. pending_base[t] = 0 /\ Len(cvr[t]) <= cookie[t] + 1
        BY <1>0, <3>2, <3>3 DEF ChainOf, Chained
      <4>2. Len(cvr[t]) > 1 => chain_violation'[t]
        <5>1. Len(cvr[t]) > 1 => pending_base[t] # cookie[t]
          BY <3>2, <4>1
        <5>2. Len(cvr[t]) > 1 => BreaksChain(t)
          BY <3>2, <5>1 DEF BreaksChain
        <5> QED BY <3>1, <5>2, Zenon
      <4> QED BY <1>0, <3>1, <3>2, <3>3, <4>2 DEF ChainOf, Chained
    <3>4. CASE ~Breaks(t)
      BY <1>0, <3>1, <3>2, <3>4 DEF ChainOf, Chained, BreaksChain
    <3> QED BY <3>3, <3>4
  <2> QED BY <2>4, <2>5
<1>13. ASSUME NEW s \in Side, OnError(s) \/ Refuse(s)
       PROVE  ChainOf(t)'
  BY <1>1, <1>13, ErrorsOnly DEF cacheVars
<1> QED BY <1>1, <1>2, <1>3, <1>4, <1>5, <1>6, <1>7, <1>8, <1>9, <1>10, <1>11, <1>12, <1>13
       DEF Next, Pair, Reader, Cache, vars, matVars, netVars, cacheVars

-----------------------------------------------------------------------------
(* The ids. *)

LEMMA AckInitial == Init => AckInv
<1> SUFFICES ASSUME Init PROVE AckInv
  OBVIOUS
<1>1. Len(db) = 1 /\ db[1].lmid = 0
  BY DEF Init
<1>2. /\ cvr["primary"] = <<>> /\ cvr["mirror"] = <<>> /\ cookie["primary"] = 0
      /\ down["primary"] = <<>> /\ lmid_acked = 0 /\ replica["primary"] = 1
  BY SidesAre DEF Init, NoCookie
<1>3. VersionOf(<<>>, 0) = Nothing /\ Nothing.lmid = 0 /\ Newest(<<>>) = Nothing
  BY DEF VersionOf, Nothing, NoCookie, Newest
<1> HIDE DEF Init
<1>4. \A i, j \in 1 .. Len(db) : i <= j => db[i].lmid <= db[j].lmid
  BY <1>1
<1>5. \A c \in 0 .. Len(cvr["mirror"]) : VersionOf(cvr["mirror"], c).lmid = 0
  BY <1>2, <1>3
<1> QED BY <1>1, <1>2, <1>3, <1>4, <1>5 DEF AckInv

DatabaseOrdered == \A i, j \in 1 .. Len(db) : i <= j => db[i].lmid <= db[j].lmid

(* The ids in the database only grow, whatever is applied to it. *)
LEMMA DatabaseOrder ==
  ASSUME OracleTypes, DatabaseOrdered, [Next]_vars
  PROVE  /\ DatabaseOrdered' /\ Len(db') >= Len(db)
         /\ \A i \in 1 .. Len(db) : db'[i] = db[i]
<1>1. CASE UNCHANGED db
  BY <1>1, DatabaseType DEF DatabaseOrdered
<1>2. ASSUME NEW id \in Nat, Apply(id), id = Current.lmid + 1
      PROVE  /\ DatabaseOrdered' /\ Len(db') >= Len(db)
             /\ \A i \in 1 .. Len(db) : db'[i] = db[i]
  <2>1. /\ Len(db') = Len(db) + 1 /\ db'[Len(db')].lmid = id
        /\ \A i \in 1 .. Len(db) : db'[i] = db[i]
    BY <1>2, ApplyType DEF Current
  <2>2. ASSUME NEW i \in 1 .. Len(db'), NEW j \in 1 .. Len(db'), i <= j
        PROVE  db'[i].lmid <= db'[j].lmid
    <3>1. CASE j \in 1 .. Len(db)
      <4>1. i \in 1 .. Len(db)
        BY <2>2, <3>1, DatabaseType
      <4> QED BY <2>1, <2>2, <3>1, <4>1 DEF DatabaseOrdered
    <3>2. CASE j = Len(db') /\ i \in 1 .. Len(db)
      <4>1. db[i].lmid <= db[Len(db)].lmid /\ db[i].lmid \in Nat /\ db[Len(db)].lmid \in Nat
        BY <3>2, DatabaseType DEF DatabaseOrdered, Record
      <4> QED BY <1>2, <2>1, <3>2, <4>1 DEF Current
    <3>3. CASE j = Len(db') /\ i = Len(db')
      BY <1>2, <2>1, <3>3
    <3> QED BY <2>1, <2>2, <3>1, <3>2, <3>3, DatabaseType
  <2> QED BY <2>1, <2>2, DatabaseType DEF DatabaseOrdered
<1>3. ASSUME NEW id \in Nat, Apply(id), id # Current.lmid + 1
      PROVE  UNCHANGED db
  BY <1>3 DEF Apply
<1>4. CASE WriteWhileAway
  <2>1. ResumeId \in Nat /\ (Apply(ResumeId) \/ UNCHANGED db)
    BY <1>4 DEF ResumeId, WriteWhileAway, Post, dbVars, OracleTypes
  <2> QED BY <1>1, <1>2, <1>3, <2>1
<1>5. CASE MutationLands
  <2>1. posting \in Nat /\ (Apply(posting) \/ UNCHANGED db)
    BY <1>5 DEF MutationLands, Post, dbVars, OracleTypes
  <2> QED BY <1>1, <1>2, <1>3, <2>1
<1>6. ASSUME NEW s \in Side, OpenSocket(s) \/ OpenSocketFails(s)
      PROVE  UNCHANGED db
  BY <1>6 DEF OpenSocket, OpenSocketFails, dbVars
<1>7. CASE Churn \/ ChurnMirror \/ ChurnEnds
  BY <1>1, <1>7 DEF Churn, ChurnMirror, SendRaises, ChurnEnds, dbVars
<1>8. CASE Reconnect \/ Away \/ Compare \/ TimeUp \/ Mutate \/ Done
  BY <1>1, <1>8 DEF Reconnect, Away, Compare, TimeUp, Mutate, Done, vars, dbVars
<1>9. ASSUME NEW s \in Side, Reader(s) \/ Cache(s) \/ Refuse(s) \/ Drop(s)
      PROVE  UNCHANGED db
  BY <1>9, ErrorsOnly DEF Reader, OnPokeStart, OnPokePart, OnPokeEnd, Receive, Cache, Replicate,
                          Poke, Drop, dbVars
<1> QED BY <1>1, <1>4, <1>5, <1>6, <1>7, <1>8, <1>9 DEF Next, Pair, vars, dbVars

PrimaryAck ==
  LET v == cvr["primary"]
  IN  /\ VersionOf(v, cookie["primary"]).lmid <= lmid_acked
      /\ lmid_acked <= Newest(v).lmid /\ Newest(v).lmid <= db[replica["primary"]].lmid
      /\ (down["primary"] # <<>> /\ down["primary"][1].tag = "pokeEnd") =>
           lmid_acked = Newest(v).lmid

MirrorLmid == \A c \in 0 .. Len(cvr["mirror"]) : VersionOf(cvr["mirror"], c).lmid = 0

LEMMA MirrorLmidKept ==
  ASSUME ~Cancels, OracleTypes, MatInv, MirrorLmid, [Next]_vars
  PROVE  MirrorLmid'
<1>1. CASE cvr'["mirror"] = cvr["mirror"]
  BY <1>1 DEF MirrorLmid, VersionOf, Nothing, NoRows
<1>2. CASE Poke("mirror")
  <2>1. PICK w \in {cvr["mirror"], Append(cvr["mirror"], View("mirror"))} : PokeTo("mirror", w)
    BY <1>2, PokeIs, SidesAre
  <2>2. cvr'["mirror"] = w
    BY <2>1, SidesAre DEF PokeTo, OracleTypes
  <2>3. CASE w = cvr["mirror"]
    BY <1>1, <2>2, <2>3
  <2>4. CASE w = Append(cvr["mirror"], View("mirror"))
    <3>1. /\ Newest(w) = View("mirror") /\ Len(w) = Len(cvr["mirror"]) + 1
          /\ Len(cvr["mirror"]) \in Nat
          /\ \A c \in 0 .. Len(cvr["mirror"]) : VersionOf(w, c) = VersionOf(cvr["mirror"], c)
      BY <2>4, SidesAre, ViewType, OneMoreVersion DEF MatInv, SideInv, SideTypes
    <3>2. View("mirror").lmid = 0
      BY SidesAre DEF View
    <3>3. \A c \in 0 .. Len(w) : VersionOf(w, c).lmid = 0
      BY <3>1, <3>2 DEF Newest, MirrorLmid
    <3> QED BY <2>2, <3>3 DEF MirrorLmid, VersionOf, Nothing, NoRows
  <2> QED BY <2>1, <2>3, <2>4
<1> QED BY <1>1, <1>2, GotSteps, SidesAre

LEMMA PrimaryAckKept ==
  ASSUME ~Cancels, OracleTypes, MatInv, DatabaseOrdered, MirrorLmid, PrimaryAck, [Next]_vars
  PROVE  PrimaryAck'
<1> DEFINE v == cvr["primary"]
           d == down["primary"]
           ck == cookie["primary"]
<1>1. /\ v \in Seq(Content) /\ Len(v) \in Nat /\ ck \in 0 .. Len(v) /\ d \in Seq(Frame)
      /\ VersionOf(v, ck) \in Content /\ Newest(v) \in Content
      /\ SideInv(v, d, conn["primary"], state["primary"], got["primary"], ck,
                 pending_base["primary"], sent["primary"])
  <2>1. SideInv(v, d, conn["primary"], state["primary"], got["primary"], ck,
                pending_base["primary"], sent["primary"])
    BY SidesAre DEF MatInv
  <2>2. v \in Seq(Content) /\ Len(v) \in Nat /\ ck \in 0 .. Len(v) /\ d \in Seq(Frame)
    BY <2>1 DEF SideInv, SideTypes
  <2>3. Len(v) \in 0 .. Len(v)
    BY <2>2
  <2> QED BY <2>1, <2>2, <2>3, VersionType DEF Newest
<1>2. VersionOf(v, ck).lmid \in Nat /\ Newest(v).lmid \in Nat /\ lmid_acked \in Nat
  BY <1>1 DEF Content, OracleTypes
<1>3. /\ VersionOf(v, ck).lmid <= lmid_acked
      /\ lmid_acked <= Newest(v).lmid /\ Newest(v).lmid <= db[replica["primary"]].lmid
      /\ (d # <<>> /\ d[1].tag = "pokeEnd") => lmid_acked = Newest(v).lmid
  BY DEF PrimaryAck
<1>4. /\ replica["primary"] \in 1 .. Len(db) /\ db[replica["primary"]].lmid \in Nat
      /\ db'[replica["primary"]] = db[replica["primary"]]
  <2>1. replica["primary"] \in 1 .. Len(db)
    BY SidesAre DEF OracleTypes
  <2> QED BY <2>1, DatabaseOrder, DatabaseType DEF Record
<1> HIDE DEF v, d, ck
(* A step that leaves the versions, the cookie and what is acknowledged. *)
<1>5. ASSUME cvr'["primary"] = v, cookie'["primary"] = ck, lmid_acked' = lmid_acked,
             replica'["primary"] = replica["primary"],
             down'["primary"] = <<>> \/ down'["primary"][1].tag # "pokeEnd"
               \/ (d # <<>> /\ down'["primary"][1] = d[1])
      PROVE  PrimaryAck'
  BY <1>3, <1>4, <1>5 DEF PrimaryAck, v, VersionOf, Newest, Nothing, NoRows, ck
<1>6. CASE UNCHANGED <<cookie, lmid_acked, down, replica, cvr>>
  BY <1>5, <1>6 DEF v, d, ck
<1>7. ASSUME NEW s \in Side, OpenSocket(s)
      PROVE  PrimaryAck'
  <2>1. /\ UNCHANGED <<cookie, lmid_acked, replica, cvr>> /\ down' = [down EXCEPT ![s] = <<>>]
    BY <1>7 DEF OpenSocket, matVars
  <2>2. down'["primary"] = <<>> \/ down'["primary"] = d
    BY <2>1, SidesAre DEF OracleTypes, d
  <2> QED BY <1>5, <2>1, <2>2 DEF v, ck
<1>8. ASSUME down' = [x \in Side |-> <<>>], UNCHANGED <<cookie, lmid_acked, replica, cvr>>
      PROVE  PrimaryAck'
  BY <1>5, <1>8, SidesAre DEF v, ck
<1>9. ASSUME NEW s \in Side, OpenSocketFails(s)
      PROVE  PrimaryAck'
  BY <1>8, <1>9 DEF OpenSocketFails, matVars, cacheVars
<1>10. CASE Away
  BY <1>8, <1>10 DEF Away, matVars, cacheVars
<1>11. CASE Churn \/ ChurnMirror \/ ChurnEnds
  BY <1>6, <1>11 DEF Churn, ChurnMirror, SendRaises, ChurnEnds, matVars, netVars, cacheVars
<1>12. CASE WriteWhileAway \/ Reconnect \/ Compare \/ TimeUp
  BY <1>6, <1>12 DEF WriteWhileAway, Reconnect, Compare, TimeUp, matVars, netVars, cacheVars
<1>13. CASE Mutate \/ MutationLands \/ Done
  BY <1>6, <1>13 DEF Mutate, MutationLands, Done, vars, matVars, netVars, cacheVars
<1>14. ASSUME NEW s \in Side, Replicate(s)
       PROVE  PrimaryAck'
  <2>1. /\ UNCHANGED <<cookie, lmid_acked, cvr, down>> /\ db' = db
        /\ replica[s] < Len(db) /\ replica' = [replica EXCEPT ![s] = @ + 1]
    BY <1>14 DEF Replicate, matVars, netVars, dbVars
  <2>2. CASE s # "primary"
    <3>1. replica'["primary"] = replica["primary"]
      BY <2>1, <2>2, SidesAre DEF OracleTypes
    <3> QED BY <1>5, <2>1, <3>1 DEF v, ck, d
  <2>3. CASE s = "primary"
    <3>1. replica'["primary"] = replica["primary"] + 1 /\ replica["primary"] + 1 \in 1 .. Len(db)
      BY <1>4, <2>1, <2>3, DatabaseType DEF OracleTypes
    <3>2. db[replica["primary"]].lmid <= db[replica["primary"] + 1].lmid
      BY <1>4, <3>1 DEF DatabaseOrdered
    <3>3. db[replica["primary"] + 1].lmid \in Nat
      BY <3>1, DatabaseType DEF Record
    <3>4. Newest(v).lmid <= db'[replica'["primary"]].lmid
      BY <1>2, <1>3, <1>4, <2>1, <3>1, <3>2, <3>3
    <3> QED BY <1>3, <2>1, <3>4 DEF PrimaryAck, v, d, VersionOf, Newest, Nothing, NoRows, ck
  <2> QED BY <2>2, <2>3
<1>15. ASSUME NEW s \in Side, Drop(s)
       PROVE  PrimaryAck'
  <2>1. PICK n \in 0 .. Len(down[s]) : down' = [down EXCEPT ![s] = SubSeq(@, 1, n)]
    BY <1>15 DEF Drop
  <2>2. UNCHANGED <<cookie, lmid_acked, replica, cvr>>
    BY <1>15 DEF Drop, matVars, cacheVars
  <2>3. down'["primary"] = <<>> \/ (d # <<>> /\ down'["primary"][1] = d[1])
    <3>1. CASE s = "primary"
      <4>1. down'["primary"] = SubSeq(d, 1, n) /\ n \in 0 .. Len(d)
        BY <2>1, <3>1 DEF OracleTypes, d
      <4> HIDE DEF d
      <4>2. n = 0 => SubSeq(d, 1, n) = <<>>
        BY <1>1
      <4>3. n > 0 => d # <<>> /\ SubSeq(d, 1, n)[1] = d[1]
        BY <1>1, <4>1
      <4> QED BY <1>1, <4>1, <4>2, <4>3
    <3>2. CASE s # "primary"
      BY <2>1, <3>2, SidesAre DEF OracleTypes, d
    <3> QED BY <3>1, <3>2
  <2> QED BY <1>5, <2>2, <2>3 DEF v, ck
<1>16. ASSUME NEW s \in Side, Poke(s)
       PROVE  PrimaryAck'
  <2>1. PICK w \in {cvr[s], Append(cvr[s], View(s))} : PokeTo(s, w)
    BY <1>16, PokeIs
  <2>2. UNCHANGED <<cookie, lmid_acked, replica>> /\ db' = db
    BY <2>1 DEF PokeTo, matVars, dbVars
  <2>3. CASE s # "primary"
    BY <1>5, <2>1, <2>2, <2>3, SidesAre DEF PokeTo, OracleTypes, v, d, ck
  <2>4. CASE s = "primary"
    <3>1. /\ cvr'["primary"] = w /\ down'["primary"][1].tag = "pokeStart"
      BY <2>1, <2>4 DEF PokeTo, OracleTypes, WholePoke
    <3>2. CASE w = v
      BY <1>5, <2>2, <3>1, <3>2 DEF ck
    <3>3. CASE w = Append(v, View("primary"))
      <4>1. /\ Newest(w) = View("primary") /\ VersionOf(w, ck) = VersionOf(v, ck)
        BY <1>1, <3>3, SidesAre, ViewType, OneMoreVersion DEF SideInv
      <4>2. View("primary").lmid = db[replica["primary"]].lmid
        BY DEF View
      <4>3. /\ VersionOf(w, ck).lmid <= lmid_acked /\ lmid_acked <= Newest(w).lmid
            /\ Newest(w).lmid <= db[replica["primary"]].lmid
        BY <1>2, <1>3, <1>4, <4>1, <4>2
      <4> QED BY <2>2, <3>1, <4>3 DEF PrimaryAck, VersionOf, Newest, Nothing, NoRows, ck
    <3> QED BY <2>1, <2>4, <3>2, <3>3 DEF v
  <2> QED BY <2>3, <2>4
<1>17. ASSUME NEW s \in Side, OnPokeStart(s)
       PROVE  PrimaryAck'
  <2>1. /\ down[s] # <<>> /\ Head(down[s]).tag = "pokeStart"
        /\ down' = [down EXCEPT ![s] = Tail(@)]
        /\ UNCHANGED <<cookie, lmid_acked, replica, cvr>>
    BY <1>17 DEF OnPokeStart, Receive, cacheVars
  <2>2. CASE s # "primary"
    BY <1>5, <2>1, <2>2, SidesAre DEF OracleTypes, v, d, ck
  <2>3. CASE s = "primary"
    <3>1. /\ d # <<>> /\ d[1].tag = "pokeStart" /\ down'["primary"] = Tail(d)
      BY <2>1, <2>3 DEF OracleTypes, d
    <3>2. Tail(d) # <<>> => Tail(d)[1].tag # "pokeEnd"
      <4>1. SUFFICES ASSUME Tail(d) # <<>> PROVE Tail(d)[1].tag # "pokeEnd"
        OBVIOUS
      <4>2. Len(d) \in Nat /\ 1 \in 1 .. Len(d) - 1 /\ Tail(d)[1] = d[1 + 1]
        BY <1>1, <3>1, <4>1, HeadTailProperties, EmptySeq
      <4>3. <<d[1].tag, d[1 + 1].tag>> \in Nexts
        BY <1>1, <4>2 DEF SideInv, OnePoke
      <4> QED BY <3>1, <4>2, <4>3 DEF Nexts
    <3> QED BY <1>5, <2>1, <3>1, <3>2 DEF v, ck
  <2> QED BY <2>2, <2>3
<1>18. ASSUME NEW s \in Side, OnPokePart(s)
       PROVE  PrimaryAck'
  <2> DEFINE m == Head(down[s])
  <2>1. /\ down[s] # <<>> /\ m.tag = "pokePart"
        /\ down' = [down EXCEPT ![s] = Tail(@)]
        /\ lmid_acked' = IF m.lmid > lmid_acked THEN m.lmid ELSE lmid_acked
        /\ UNCHANGED <<cookie, replica, cvr>>
    BY <1>18 DEF OnPokePart, Receive, cacheVars
  <2>2. FrameSays(cvr[s], cookie[s], m)
    <3>1. Len(down[s]) \in Nat /\ Len(down[s]) > 0 /\ m = down[s][1]
      BY <2>1 DEF OracleTypes
    <3> QED BY <3>1 DEF MatInv, SideInv, OnePoke
  <2>3. m.lmid = IF Newest(cvr[s]).lmid # VersionOf(cvr[s], cookie[s]).lmid
                 THEN Newest(cvr[s]).lmid ELSE 0
    BY <2>1, <2>2 DEF FrameSays
  <2> HIDE DEF m
  <2>4. CASE s = "mirror"
    <3>1. cvr["mirror"] \in Seq(Content) /\ cookie["mirror"] \in 0 .. Len(cvr["mirror"])
      BY SidesAre DEF MatInv, SideInv, SideTypes
    <3>2. Newest(cvr["mirror"]).lmid = 0 /\ VersionOf(cvr["mirror"], cookie["mirror"]).lmid = 0
      BY <3>1 DEF MirrorLmid, Newest
    <3>3. lmid_acked' = lmid_acked
      BY <1>2, <2>1, <2>3, <2>4, <3>2
    <3> QED BY <1>5, <2>1, <2>4, <3>3, SidesAre DEF OracleTypes, v, d, ck
  <2>5. CASE s = "primary"
    <3>1. m.lmid = IF Newest(v).lmid # VersionOf(v, ck).lmid THEN Newest(v).lmid ELSE 0
      BY <2>3, <2>5 DEF v, ck
    <3>2. lmid_acked' = Newest(v).lmid
      BY <1>2, <1>3, <2>1, <3>1
    <3>3. db'[replica'["primary"]] = db[replica["primary"]]
      BY <1>4, <2>1
    <3> QED BY <1>2, <1>3, <2>1, <3>2, <3>3 DEF PrimaryAck, VersionOf, Newest, Nothing, NoRows, v, ck
  <2> QED BY <2>4, <2>5 DEF Side
<1>19. ASSUME NEW s \in Side, OnPokeEnd(s)
       PROVE  PrimaryAck'
  <2>1. /\ down[s] # <<>> /\ Head(down[s]).tag = "pokeEnd"
        /\ down' = [down EXCEPT ![s] = Tail(@)] /\ UNCHANGED <<lmid_acked, replica, cvr>>
    BY <1>19 DEF OnPokeEnd, Receive, cacheVars
  <2>2. Head(down[s]).cookie = Len(cvr[s]) /\ ~Head(down[s]).cancel /\ Tail(down[s]) = <<>>
    BY <2>1, EndKeeps DEF MatInv
  <2>3. cookie' = [cookie EXCEPT ![s] = Len(cvr[s])]
    BY <1>19, <2>2 DEF OnPokeEnd, NextCookie
  <2>4. CASE s # "primary"
    BY <1>5, <2>1, <2>3, <2>4, SidesAre DEF OracleTypes, v, d, ck
  <2>5. CASE s = "primary"
    <3>1. d # <<>> /\ d[1].tag = "pokeEnd"
      BY <2>1, <2>5 DEF OracleTypes, d
    <3>2. lmid_acked = Newest(v).lmid
      BY <1>3, <3>1
    <3>3. cookie'["primary"] = Len(v) /\ down'["primary"] = <<>>
      BY <2>1, <2>2, <2>3, <2>5 DEF OracleTypes, v
    <3>4. db'[replica'["primary"]] = db[replica["primary"]]
      BY <1>4, <2>1
    <3> QED BY <1>2, <1>3, <2>1, <3>2, <3>3, <3>4
            DEF PrimaryAck, VersionOf, Newest, Nothing, NoRows, v
  <2> QED BY <2>4, <2>5
<1>20. ASSUME NEW s \in Side, OnError(s) \/ Refuse(s)
       PROVE  PrimaryAck'
  BY <1>6, <1>20, ErrorsOnly DEF cacheVars
<1> QED BY <1>6, <1>7, <1>9, <1>10, <1>11, <1>12, <1>13, <1>14, <1>15, <1>16, <1>17, <1>18, <1>19, <1>20
       DEF Next, Pair, Reader, Cache, vars, matVars, netVars, cacheVars

LEMMA AckInductive ==
  ASSUME ~Cancels, OracleTypes, MatInv, AckInv, [Next]_vars
  PROVE  AckInv'
<1>1. DatabaseOrdered /\ MirrorLmid /\ PrimaryAck
  BY DEF AckInv, DatabaseOrdered, MirrorLmid, PrimaryAck
<1>2. DatabaseOrdered' /\ MirrorLmid' /\ PrimaryAck'
  BY <1>1, DatabaseOrder, MirrorLmidKept, PrimaryAckKept
<1> QED BY <1>2 DEF AckInv, DatabaseOrdered, MirrorLmid, PrimaryAck

(* Once the primary is caught up, every write there was is acknowledged. *)
LEMMA CaughtUpAcked ==
  ASSUME OracleTypes, MatInv, AckInv, CaughtUp("primary")
  PROVE  lmid_acked = Current.lmid
<1> DEFINE v == cvr["primary"]
<1>1. /\ replica["primary"] = Len(db) /\ cookie["primary"] = Len(v)
      /\ View("primary") = Version("primary", cookie["primary"])
  BY DEF CaughtUp
<1>2. View("primary").lmid = Current.lmid
  BY <1>1 DEF View, Current
<1>3. VersionOf(v, cookie["primary"]) = Newest(v) /\ View("primary") = Newest(v)
  BY <1>1 DEF Version, VersionOf, Newest
<1>4. Newest(v).lmid <= lmid_acked /\ lmid_acked <= Newest(v).lmid
  BY <1>3 DEF AckInv
<1>5. Current.lmid \in Nat /\ lmid_acked \in Nat
  BY DatabaseType DEF Record, OracleTypes
<1> QED BY <1>2, <1>3, <1>4, <1>5

LEMMA IdInitial == Init => IdInv
<1> SUFFICES ASSUME Init PROVE IdInv
  OBVIOUS
<1>1. Current.lmid = 0
  BY DEF Init, Current
<1> QED BY <1>1 DEF Init, IdInv

LEMMA IdInductive ==
  ASSUME ~Cancels, Prompt, Cycles <= 1, OracleTypes, MatInv, PhaseInv, AckInv, IdInv, [Next]_vars
  PROVE  IdInv'
<1>0. /\ Current.lmid \in Nat /\ mid \in Nat /\ posting \in Nat /\ writes \in Nat /\ cycles \in Nat
      /\ lmid_acked \in Nat /\ Cycles \in Nat
  BY DatabaseType, OracleAssumption DEF Record, OracleTypes
<1> SUFFICES ASSUME mishaps' = {} PROVE IdInv'
  BY DEF IdInv
<1>a. mishaps = {}
  BY MishapsStay
<1> USE <1>a DEF IdInv
<1>1. CASE /\ UNCHANGED <<writes, mid, posting, db, refused>>
           /\ pc' = "away" => pc = "away" /\ lmid_acked' = lmid_acked
  BY <1>1 DEF Current
<1>2. ASSUME NEW s \in Side, OpenSocket(s) \/ OpenSocketFails(s)
      PROVE  IdInv'
  <2>1. pc' # "away" /\ UNCHANGED <<writes, mid, posting, db, refused>>
    BY <1>2 DEF OpenSocket, OpenSocketFails, Conclude, Opening, writeVars, dbVars
  <2> QED BY <1>1, <2>1
<1>3. CASE Churn
  <2>1. pc' # "away" /\ UNCHANGED <<writes, mid, posting, db, refused>>
    BY <1>3 DEF Churn, SendRaises, writeVars, dbVars
  <2> QED BY <1>1, <2>1
<1>4. CASE ChurnMirror \/ ChurnEnds \/ Reconnect
  <2>1. pc' # "away" /\ UNCHANGED <<writes, mid, posting, db, refused>>
    BY <1>4 DEF ChurnMirror, SendRaises, ChurnEnds, Reconnect, writeVars, dbVars
  <2> QED BY <1>1, <2>1
<1>5. CASE Compare
  <2>1. pc' # "away" /\ UNCHANGED <<writes, mid, posting, db, refused>>
    BY <1>5 DEF Compare, Conclude, writeVars, dbVars
  <2> QED BY <1>1, <2>1
<1>6. CASE TimeUp \/ Done
  BY <1>1, <1>6 DEF TimeUp, Done, vars, runVars, writeVars, matVars, dbVars
<1>7. CASE Mutate
  <2>1. /\ pc \in Running /\ mid' = mid + 1 /\ posting = 0 /\ posting' = mid + 1
        /\ UNCHANGED <<pc, writes, db, refused>>
    BY <1>7 DEF Mutate, Running, runVars, dbVars
  <2>2. writes = 0 /\ Current.lmid = mid
    BY <2>1 DEF PhaseInv, FirstConnection
  <2>3. Current' = Current /\ mid + 1 # 0 /\ (mid + 1) - 1 = mid
    BY <1>0, <2>1 DEF Current
  <2>4. posting' # 0 /\ posting' = mid' /\ Current'.lmid = mid' - 1
    BY <2>1, <2>2, <2>3
  <2>5. pc' # "away" /\ ~refused'
    BY <2>1 DEF Running
  <2> QED BY <2>4, <2>5
<1>8. CASE MutationLands
  <2>1. /\ posting # 0 /\ pc # "done" /\ Apply(posting) /\ posting' = 0
        /\ UNCHANGED <<pc, writes, mid>>
    BY <1>8 DEF MutationLands, Post, runVars
  <2>2. pc \in Running /\ writes = 0
    BY <2>1 DEF PhaseInv, FirstConnection
  <2>3. posting = mid /\ posting = Current.lmid + 1
    BY <1>0, <2>1, <2>2
  <2>4. Current'.lmid = mid /\ ~refused'
    BY <1>0, <2>1, <2>3, ApplyType DEF Apply
  <2> QED BY <2>1, <2>2, <2>4 DEF Running
<1>9. CASE WriteWhileAway
  <2>1. /\ pc = "away" /\ pc' = "away" /\ Apply(lmid_acked + writes + 1) /\ writes' = writes + 1
        /\ UNCHANGED <<mid, posting, lmid_acked>>
    BY <1>9 DEF WriteWhileAway, Post, ResumeId, matVars
  <2>2. Current.lmid = lmid_acked + writes /\ posting = 0
    BY <2>1 DEF PhaseInv, Running
  <2> DEFINE id == lmid_acked + writes + 1
  <2>3. id \in Nat /\ id = Current.lmid + 1 /\ Apply(id)
    BY <1>0, <2>1, <2>2
  <2> HIDE DEF id
  <2>4. Current'.lmid = id /\ ~refused'
    BY <2>3, ApplyType DEF Apply
  <2>5. id = lmid_acked + (writes + 1) /\ writes + 1 # 0
    BY <1>0 DEF id
  <2> QED BY <1>0, <2>1, <2>2, <2>4, <2>5
<1>10. CASE Away
  <2>1. /\ pc \in {"quiesce", "requiesce"} /\ cycles < Cycles /\ pc' = "away"
        /\ mishaps' = (IF posting # 0 THEN mishaps \cup {"late"} ELSE mishaps)
        /\ UNCHANGED <<writes, mid, posting, db, refused, lmid_acked>>
    BY <1>10 DEF Away, dbVars, matVars
  <2>2. posting = 0 /\ conn["primary"] # "dropped"
    BY <2>1 DEF PhaseInv
  <2>3. pc = "quiesce" /\ writes = 0
    BY <1>0, <2>1 DEF PhaseInv, FirstConnection, Running
  <2>4. Current.lmid = lmid_acked
    BY <1>10, <2>2, WaitedQuiet, SidesAre, CaughtUpAcked DEF Away
  <2>5. Current' = Current
    BY <2>1 DEF Current
  <2> QED BY <1>0, <2>1, <2>2, <2>3, <2>4, <2>5
<1>11. ASSUME NEW s \in Side, Reader(s)
       PROVE  IdInv'
  <2>1. pc # "away" /\ UNCHANGED <<pc, writes, mid, posting, db, refused>>
    BY <1>11 DEF Reader, OnPokeStart, OnPokePart, OnPokeEnd, OnError, Receive, Listening, runVars,
                writeVars, dbVars
  <2> QED BY <1>1, <2>1
<1>12. ASSUME NEW s \in Side, Cache(s) \/ Refuse(s) \/ Drop(s)
       PROVE  IdInv'
  BY <1>1, <1>12 DEF Cache, Replicate, Poke, Refuse, Drop, runVars, writeVars, matVars, dbVars
<1> QED BY <1>1, <1>2, <1>3, <1>4, <1>5, <1>6, <1>7, <1>8, <1>9, <1>10, <1>11, <1>12
       DEF Next, Pair, vars, runVars, writeVars, matVars, dbVars

-----------------------------------------------------------------------------
(* The error frames. *)

LEMMA ErrInitial == Init => ErrInv
<1> SUFFICES ASSUME Init PROVE ErrInv
  OBVIOUS
<1>1. \A s \in Side : errors_down[s] = NoErrors /\ error_kinds[s] = NoErrors
  BY DEF Init
<1>2. NoErrors \in [Kinds -> Nat] /\ NoErrors["transformError"] = 0
  BY DEF NoErrors, Kinds
<1>3. ErrTypes
  BY <1>2 DEF Init, ErrTypes
<1>4. MirrorToCome = {}
  BY DEF Init, MirrorToCome
<1> QED BY <1>1, <1>2, <1>3, <1>4, SidesAre DEF ErrInv, Forwards, Raises

(* What a cache forwards of a number of queries. *)
LEMMA ForwardedIs ==
  ASSUME NEW queries, NEW raised \in [Kinds -> Nat]
  PROVE  /\ Forwarded(queries, raised) \in [Kinds -> Nat]
         /\ Forwarded(queries, raised)["transformError"]
              = raised["transformError"] + Raises(queries)
<1>1. "transformError" \in Kinds /\ raised["transformError"] \in Nat
  BY DEF Kinds
<1>2. CASE fault = "reject" /\ FaultyQuery \in queries
  BY <1>1, <1>2 DEF Forwarded, Raises
<1>3. CASE ~(fault = "reject" /\ FaultyQuery \in queries)
  BY <1>1, <1>3 DEF Forwarded, Raises
<1> QED BY <1>2, <1>3

LEMMA ErrInductive ==
  ASSUME Prompt, OracleTypes, PhaseInv, WantInv, ErrInv, [Next]_vars
  PROVE  ErrInv'
<1>0. /\ ErrTypes /\ "transformError" \in Kinds /\ "error" \in Kinds
      /\ \A s \in Side : /\ errors_down[s] \in [Kinds -> Nat] /\ error_kinds[s] \in [Kinds -> Nat]
                        /\ errors_down[s]["transformError"] \in Nat
                        /\ error_kinds[s]["transformError"] \in Nat
  BY DEF ErrInv, ErrTypes, Kinds
<1>a. fault' = fault
  BY WantGrows
<1>b. NoErrors \in [Kinds -> Nat] /\ NoErrors["transformError"] = 0
  BY DEF NoErrors, Kinds
<1>1. CASE UNCHANGED <<errors_down, error_kinds, pc, want, fault>> /\ \A s \in Side : conn'[s] = "none" => conn[s] = "none"
  BY <1>1 DEF ErrInv, ErrTypes, Forwards, Raises, MirrorToCome
<1>2. ASSUME UNCHANGED <<errors_down, error_kinds, want, conn>>, MirrorToCome = {}, MirrorToCome' = {}
      PROVE  ErrInv'
  BY <1>2, <1>a DEF ErrInv, ErrTypes, Forwards, Raises
(* A step that sends some queries to a side. *)
<1>3. ASSUME NEW s \in Side, NEW queries, NEW raised \in [Kinds -> Nat],
             errors_down' = [errors_down EXCEPT ![s] = Forwarded(queries, raised)],
             raised["transformError"] = errors_down[s]["transformError"],
             error_kinds' = error_kinds, conn'[s] # "none",
             \A x \in Side : conn'[x] = "none" => conn[x] = "none",
             IF s = "primary" THEN MirrorToCome = {} /\ Raises(MirrorToCome)' = Raises(queries)
                              ELSE Raises(MirrorToCome) = Raises(queries) /\ MirrorToCome' = {}
      PROVE  ErrInv'
  <2>1. /\ Forwarded(queries, raised) \in [Kinds -> Nat]
        /\ Forwarded(queries, raised)["transformError"] = errors_down[s]["transformError"] + Raises(queries)
    BY <1>3, ForwardedIs
  <2>2. ErrTypes'
    BY <1>0, <1>3, <2>1 DEF ErrTypes
  <2>3. /\ Forwards(s)' = Forwards(s) + Raises(queries)
        /\ \A x \in Side : x # s => Forwards(x)' = Forwards(x) /\ errors_down'[x] = errors_down[x]
    BY <1>0, <1>3, <2>1 DEF Forwards, ErrTypes, Raises
  <2>4. \A x \in Side : conn'[x] = "none" => errors_down'[x]["transformError"] = 0
    BY <1>3, <2>3 DEF ErrInv
  <2>5. fault # "reject" => Raises(queries) = 0
    BY DEF Raises
  <2>6. fault' # "reject" => \A x \in Side : Forwards(x)' = 0
    BY <1>a, <2>3, <2>5 DEF ErrInv
  <2>7. Raises({}) = 0 /\ Raises({})' = 0 /\ Raises(queries) \in Nat
    BY DEF Raises
  <2>8. Forwards("primary") \in Nat /\ Forwards("mirror") \in Nat
    BY <1>0, SidesAre DEF Forwards
  <2>9. Forwards("primary")' = Forwards("mirror")' + Raises(MirrorToCome)'
    <3>1. CASE s = "primary"
      BY <1>3, <2>3, <2>7, <2>8, <3>1, SidesAre DEF ErrInv
    <3>2. CASE s = "mirror"
      <4>1. Raises(MirrorToCome)' = 0
        BY <1>3, <2>7, <3>2, SidesAre
      <4> QED BY <1>3, <2>3, <2>7, <2>8, <3>2, <4>1, SidesAre DEF ErrInv
    <3> QED BY <3>1, <3>2 DEF Side
  <2> QED BY <2>2, <2>4, <2>6, <2>9 DEF ErrInv
<1>4. ASSUME NEW s \in Side, OpenSocket(s)
      PROVE  ErrInv'
  <2>1. /\ errors_down' = [errors_down EXCEPT ![s] = Forwarded(want'[s], NoErrors)]
        /\ want' = [want EXCEPT ![s] = @ \cup active] /\ error_kinds' = error_kinds
        /\ conn' = [conn EXCEPT ![s] = "open"] /\ active' = active
        /\ \/ s = "primary" /\ pc = "open_primary" /\ pc' = "open_mirror"
           \/ s = "mirror" /\ pc = "open_mirror" /\ pc' = "churn"
           \/ s = "primary" /\ pc = "reopen_primary" /\ pc' = "reopen_mirror"
           \/ s = "mirror" /\ pc = "reopen_mirror" /\ pc' = "requiesce"
    BY <1>4 DEF OpenSocket, Opening, Side, Declared, matVars
  <2>2. conn[s] = "none"
    BY <2>1 DEF PhaseInv
  <2>3. NoErrors["transformError"] = errors_down[s]["transformError"]
    BY <1>b, <2>2 DEF ErrInv
  <2>4. conn'[s] # "none" /\ \A x \in Side : conn'[x] = "none" => conn[x] = "none"
    BY <2>1 DEF OracleTypes
  <2>5. s = "primary" => MirrorToCome = {} /\ MirrorToCome' = want'["primary"]
    BY <2>1, SidesAre DEF MirrorToCome
  <2>6. s = "mirror" => MirrorToCome = want["primary"] /\ MirrorToCome' = {}
    BY <2>1, SidesAre DEF MirrorToCome
  <2>7. s = "mirror" => want["primary"] = want'["mirror"]
    <3>1. s = "mirror" => want'["mirror"] = want["mirror"] \cup active
      BY <2>1, SidesAre DEF OracleTypes
    <3> QED BY <2>1, <3>1, SidesAre DEF WantInv
  <2>8. IF s = "primary" THEN MirrorToCome = {} /\ Raises(MirrorToCome)' = Raises(want'[s])
                         ELSE Raises(MirrorToCome) = Raises(want'[s]) /\ MirrorToCome' = {}
    BY <1>a, <2>5, <2>6, <2>7, SidesAre DEF Raises, Side
  <2> QED BY <1>3, <1>b, <2>1, <2>3, <2>4, <2>8
<1>5. ASSUME NEW s \in Side, OpenSocketFails(s)
      PROVE  ErrInv'
  <2>1. /\ errors_down' = [x \in Side |-> NoErrors] /\ error_kinds' = error_kinds
        /\ fault = "drop" /\ pc' = "done"
    BY <1>5 DEF OpenSocketFails, Conclude, matVars
  <2>2. \A x \in Side : Forwards(x)' = 0
    <3> SUFFICES ASSUME NEW x \in Side PROVE Forwards(x)' = 0
      OBVIOUS
    <3>1. Forwards(x) = 0
      BY <2>1 DEF ErrInv
    <3>2. error_kinds[x]["transformError"] = 0
      BY <1>0, <3>1 DEF Forwards
    <3> QED BY <1>b, <2>1, <3>2 DEF Forwards
  <2>3. ErrTypes'
    BY <1>0, <1>b, <2>1 DEF ErrTypes
  <2>4. Raises(MirrorToCome)' = 0
    BY <1>a, <2>1 DEF Raises
  <2>5. \A x \in Side : errors_down'[x]["transformError"] = 0
    BY <1>b, <2>1
  <2> QED BY <2>2, <2>3, <2>4, <2>5, SidesAre DEF ErrInv
<1>6. CASE Churn
  <2>1. /\ pc = "churn" /\ UNCHANGED <<conn, error_kinds>> /\ want["primary"] = want["mirror"]
    BY <1>6 DEF Churn, WantInv, matVars
  <2>2. CASE Deliver("primary") /\ pc' = "churn_mirror"
    <3>1. /\ want' = [want EXCEPT !["primary"] = @ \cup active'] /\ conn["primary"] = "open"
          /\ errors_down' = [errors_down EXCEPT !["primary"] =
                                Forwarded(want'["primary"] \ want["primary"], errors_down["primary"])]
      BY <2>2, SidesAre DEF Deliver, ErrTypes
    <3>2. want'["mirror"] = want["mirror"]
      BY <3>1, SidesAre DEF OracleTypes
    <3>3. MirrorToCome = {} /\ MirrorToCome' = want'["primary"] \ want["primary"]
      BY <2>1, <2>2, <3>2 DEF MirrorToCome
    <3>4. Raises(MirrorToCome)' = Raises(want'["primary"] \ want["primary"])
      BY <1>a, <3>3 DEF Raises
    <3> QED BY <1>0, <1>3, <2>1, <3>1, <3>3, <3>4, SidesAre
  <2>3. CASE SendRaises("primary")
    <3>1. UNCHANGED <<want, errors_down>> /\ pc' = "quiesce"
      BY <2>3 DEF SendRaises
    <3>2. MirrorToCome = {} /\ MirrorToCome' = {}
      BY <2>1, <3>1 DEF MirrorToCome
    <3> QED BY <1>2, <2>1, <3>1, <3>2
  <2> QED BY <1>6, <2>2, <2>3 DEF Churn
<1>7. CASE ChurnMirror
  <2>1. /\ pc = "churn_mirror" /\ UNCHANGED <<conn, error_kinds, active>>
        /\ want["primary"] = want["mirror"] \cup active
    BY <1>7 DEF ChurnMirror, WantInv, matVars
  <2>2. CASE Deliver("mirror") /\ pc' = "churn"
    <3>1. /\ want' = [want EXCEPT !["mirror"] = @ \cup active'] /\ conn["mirror"] = "open"
          /\ errors_down' = [errors_down EXCEPT !["mirror"] =
                                Forwarded(want'["mirror"] \ want["mirror"], errors_down["mirror"])]
      BY <2>2, SidesAre DEF Deliver, ErrTypes
    <3>2. want'["mirror"] = want["primary"]
      BY <2>1, <3>1, SidesAre DEF OracleTypes
    <3>3. MirrorToCome = want'["mirror"] \ want["mirror"] /\ MirrorToCome' = {}
      BY <2>1, <2>2, <3>2 DEF MirrorToCome
    <3> QED BY <1>0, <1>3, <2>1, <3>1, <3>3, SidesAre
  <2>3. CASE SendRaises("mirror")
    <3>1. UNCHANGED <<want, errors_down>> /\ pc' = "quiesce" /\ fault = "drop"
      BY <2>3, SidesAre DEF SendRaises, PhaseInv
    <3>2. Raises(MirrorToCome) = 0 /\ Raises(MirrorToCome)' = 0
      BY <1>a, <3>1 DEF Raises
    <3> QED BY <1>a, <2>1, <3>1, <3>2 DEF ErrInv, ErrTypes, Forwards
  <2> QED BY <1>7, <2>2, <2>3 DEF ChurnMirror
<1>8. CASE ChurnEnds \/ Reconnect \/ Compare
  <2>1. UNCHANGED <<errors_down, error_kinds, want, conn>>
    BY <1>8 DEF ChurnEnds, Reconnect, Compare, matVars, netVars, cacheVars
  <2>2. MirrorToCome = {} /\ MirrorToCome' = {}
    BY <1>8 DEF ChurnEnds, Reconnect, Compare, Conclude, MirrorToCome
  <2> QED BY <1>2, <2>1, <2>2
<1>9. CASE Away
  <2>1. /\ errors_down' = [x \in Side |-> NoErrors] /\ error_kinds' = error_kinds
        /\ pc \in {"quiesce", "requiesce"} /\ pc' = "away"
    BY <1>9 DEF Away, matVars
  <2>2. ASSUME NEW x \in Side PROVE Forwards(x)' = Forwards(x)
    <3>1. CASE conn[x] = "dropped"
      <4>1. fault = "drop"
        BY <3>1 DEF PhaseInv
      <4>2. Forwards(x) = 0
        BY <4>1 DEF ErrInv
      <4>3. error_kinds[x]["transformError"] = 0
        BY <1>0, <4>2 DEF Forwards
      <4> QED BY <1>b, <2>1, <4>2, <4>3 DEF Forwards
    <3>2. CASE CaughtUp(x)
      BY <2>1, <3>2 DEF CaughtUp, Forwards
    <3> QED BY <1>9, <3>1, <3>2, WaitedQuiet DEF Away
  <2>3. ErrTypes'
    BY <1>0, <1>b, <2>1 DEF ErrTypes
  <2>4. MirrorToCome = {} /\ MirrorToCome' = {}
    BY <2>1 DEF MirrorToCome
  <2>5. \A x \in Side : errors_down'[x]["transformError"] = 0
    BY <1>b, <2>1
  <2> QED BY <1>a, <2>2, <2>3, <2>4, <2>5, SidesAre DEF ErrInv, Raises
<1>10. CASE WriteWhileAway
  BY <1>1, <1>10 DEF WriteWhileAway, matVars, netVars, cacheVars
<1>11. CASE TimeUp \/ Done
  BY <1>1, <1>11 DEF TimeUp, Done, vars, runVars, matVars, netVars, cacheVars
<1>12. CASE Mutate \/ MutationLands
  BY <1>1, <1>12 DEF Mutate, MutationLands, runVars, matVars, netVars, cacheVars
<1>13. ASSUME NEW s \in Side, OnPokeStart(s) \/ OnPokePart(s) \/ OnPokeEnd(s)
       PROVE  ErrInv'
  BY <1>1, <1>13 DEF OnPokeStart, OnPokePart, OnPokeEnd, Receive, runVars, cacheVars
<1>14. ASSUME NEW s \in Side, Cache(s)
       PROVE  ErrInv'
  BY <1>1, <1>14 DEF Cache, Replicate, Poke, runVars, matVars, netVars, cacheVars
<1>15. ASSUME NEW s \in Side, Drop(s)
       PROVE  ErrInv'
  <2>1. /\ UNCHANGED <<errors_down, error_kinds, pc, want, fault>>
        /\ conn' = [conn EXCEPT ![s] = "dropped"]
    BY <1>15 DEF Drop, runVars, matVars, cacheVars
  <2>2. \A x \in Side : conn'[x] = "none" => conn[x] = "none"
    BY <2>1 DEF OracleTypes
  <2> QED BY <1>1, <2>1, <2>2
(* A step that moves error frames, or sends one that is no rejection. *)
<1>16. ASSUME ErrTypes', UNCHANGED <<pc, want, conn>>, \A x \in Side : Forwards(x)' = Forwards(x),
              \A x \in Side : errors_down'[x]["transformError"] <= errors_down[x]["transformError"]
       PROVE  ErrInv'
  <2>1. MirrorToCome' = MirrorToCome
    BY <1>16 DEF MirrorToCome
  <2>2. Raises(MirrorToCome)' = Raises(MirrorToCome)
    BY <1>a, <2>1 DEF Raises
  <2>3. \A x \in Side : errors_down'[x]["transformError"] \in Nat
    BY <1>0, <1>16 DEF ErrTypes
  <2>4. \A x \in Side : conn'[x] = "none" => errors_down'[x]["transformError"] = 0
    BY <1>0, <1>16, <2>3 DEF ErrInv
  <2> QED BY <1>a, <1>16, <2>2, <2>4, SidesAre DEF ErrInv
<1>17. ASSUME NEW s \in Side, OnError(s)
       PROVE  ErrInv'
  <2>1. PICK kind \in Kinds :
          /\ errors_down[s][kind] > 0
          /\ errors_down' = [errors_down EXCEPT ![s][kind] = @ - 1]
          /\ error_kinds' = [error_kinds EXCEPT ![s][kind] = @ + 1]
    BY <1>17 DEF OnError
  <2>2. errors_down[s][kind] \in Nat /\ error_kinds[s][kind] \in Nat
    BY <1>0
  <2>3. /\ \A x \in Side, k \in Kinds : errors_down'[x][k] =
               IF x = s /\ k = kind THEN errors_down[x][k] - 1 ELSE errors_down[x][k]
        /\ \A x \in Side, k \in Kinds : error_kinds'[x][k] =
               IF x = s /\ k = kind THEN error_kinds[x][k] + 1 ELSE error_kinds[x][k]
    BY <1>0, <2>1 DEF ErrTypes
  <2>4. ErrTypes'
    BY <1>0, <2>1, <2>2 DEF ErrTypes
  <2>5. \A x \in Side : Forwards(x)' = Forwards(x)
    BY <1>0, <2>3 DEF Forwards
  <2>6. \A x \in Side : errors_down'[x]["transformError"] <= errors_down[x]["transformError"]
    BY <1>0, <2>3
  <2>7. UNCHANGED <<pc, want, conn>>
    BY <1>17, ErrorsOnly DEF runVars, cacheVars
  <2> QED BY <1>16, <2>4, <2>5, <2>6, <2>7
<1>18. ASSUME NEW s \in Side, Refuse(s)
       PROVE  ErrInv'
  <2>1. errors_down' = [errors_down EXCEPT ![s]["error"] = @ + 1] /\ error_kinds' = error_kinds
    BY <1>18 DEF Refuse, matVars
  <2>2. \A x \in Side : errors_down'[x]["transformError"] = errors_down[x]["transformError"]
    BY <1>0, <2>1 DEF ErrTypes
  <2>3. ErrTypes'
    BY <1>0, <2>1 DEF ErrTypes
  <2>4. \A x \in Side : Forwards(x)' = Forwards(x)
    BY <2>1, <2>2 DEF Forwards
  <2>5. UNCHANGED <<pc, want, conn>>
    BY <1>18, ErrorsOnly DEF runVars, cacheVars
  <2> QED BY <1>0, <1>16, <2>2, <2>3, <2>4, <2>5
<1> QED BY <1>1, <1>4, <1>5, <1>6, <1>7, <1>8, <1>9, <1>10, <1>11, <1>12, <1>13, <1>14, <1>15, <1>17,
           <1>18
       DEF Next, Pair, Reader, vars, runVars, matVars, netVars, cacheVars

(* Quiet caches have forwarded the same rejections. *)
LEMMA EqualForwards ==
  ASSUME ErrInv, pc \in {"quiesce", "requiesce"}, \A s \in Side : errors_down[s] = NoErrors
  PROVE  error_kinds["primary"]["transformError"] = error_kinds["mirror"]["transformError"]
<1>1. Raises(MirrorToCome) = 0
  BY DEF MirrorToCome, Raises
<1>2. Forwards("primary") = Forwards("mirror") + 0
  BY <1>1 DEF ErrInv
<1>3. NoErrors["transformError"] = 0
  BY DEF NoErrors, Kinds
<1>4. /\ error_kinds["primary"]["transformError"] \in Nat
      /\ error_kinds["mirror"]["transformError"] \in Nat
  BY SidesAre DEF ErrInv, ErrTypes, Kinds
<1> QED BY <1>2, <1>3, <1>4, SidesAre DEF Forwards

-----------------------------------------------------------------------------
(* The comparison. *)

LEMMA SettledInitial == Init => SettledInv
BY DEF Init, SettledInv

(* A side that is caught up holds what its cache should deliver. *)
LEMMA CaughtUpDelivered ==
  ASSUME OracleTypes, MatInv, GotInv, NEW s \in Side, CaughtUp(s)
  PROVE  state[s] = Delivered(s) /\ got[s] = Served(s) \ Late(s) /\ errors_down[s] = NoErrors
<1> DEFINE v == cvr[s]
<1>1. /\ conn[s] = "open" /\ down[s] = <<>> /\ replica[s] = Len(db) /\ cookie[s] = Len(v)
      /\ View(s) = Version(s, cookie[s]) /\ errors_down[s] = NoErrors
  BY DEF CaughtUp
<1>2. SideInv(v, down[s], conn[s], state[s], got[s], cookie[s], pending_base[s], sent[s])
  BY DEF MatInv
<1>3. Len(v) \in Nat
  BY <1>2 DEF SideInv, SideTypes
<1>4. pending_base[s] = Unset
  BY <1>1, <1>2, <1>3 DEF SideInv, OnePoke
<1>5. VersionOf(v, cookie[s]) = View(s)
  BY <1>1 DEF Version, VersionOf
<1>6. state[s] = View(s).rows /\ View(s).got \subseteq got[s]
  BY <1>2, <1>4, <1>5 DEF SideInv, Materialized
<1>7. View(s).rows = Delivered(s)
  BY <1>1 DEF View, Delivered, Current
<1>8. View(s).got = Served(s) \ Late(s)
  BY DEF View, Late
<1> QED BY <1>1, <1>6, <1>7, <1>8 DEF GotInv

LEMMA SettledInductive ==
  ASSUME ~Cancels, Prompt, OracleTypes, MatInv, PhaseInv, WantInv, GotInv, ErrInv, SettledInv,
         [Next]_vars
  PROVE  SettledInv'
<1> DEFINE judged == <<verdict, state, got, conn_error, resume_error, chain_violation, want, active,
                       db, fault, error_kinds, errors_down>>
<1>1. CASE pc' = pc /\ UNCHANGED judged
  BY <1>1 DEF SettledInv, OracleFailed, ProtocolErrors, Mismatches, HydrationGap, Delivered, Served,
              Late, Current
<1>2. CASE pc' # "done"
  BY <1>2 DEF SettledInv
<1>3. ASSUME NEW s \in Side, OpenSocketFails(s)
      PROVE  SettledInv'
  <2>1. /\ UNCHANGED <<state, got, chain_violation>>
        /\ conn_error' = (conn_error \/ pc \in {"open_primary", "open_mirror"})
        /\ resume_error' = (resume_error \/ pc \in {"reopen_primary", "reopen_mirror"})
        /\ pc \in {"open_primary", "open_mirror", "reopen_primary", "reopen_mirror"}
        /\ verdict' = IF OracleFailed \/ conn_error' \/ resume_error' THEN "FAIL" ELSE "PASS"
    BY <1>3 DEF OpenSocketFails, Opening, Conclude, matVars
  <2>2. conn_error' \/ resume_error'
    BY <2>1
  <2>3. OracleFailed'
    BY <2>2 DEF OracleFailed
  <2>4. verdict' = "FAIL"
    BY <2>1, <2>2
  <2> QED BY <2>2, <2>3, <2>4 DEF SettledInv
<1>4. CASE Compare
  <2>1. /\ pc \in {"quiesce", "requiesce"} /\ cycles = Cycles /\ pc' = "done"
        /\ verdict' = IF OracleFailed THEN "FAIL" ELSE "PASS"
        /\ UNCHANGED <<state, got, conn_error, resume_error, chain_violation, want, active, db,
                       fault, error_kinds, errors_down>>
    BY <1>4 DEF Compare, Conclude, matVars, netVars, dbVars, cacheVars
  <2>2. OracleFailed' = OracleFailed
    BY <2>1 DEF OracleFailed, ProtocolErrors, Mismatches, HydrationGap
  <2>3. ASSUME Reconnects \/ fault # "drop", NEW s \in Side
        PROVE  conn[s] # "dropped"
    <3>1. SUFFICES ASSUME conn[s] = "dropped" PROVE FALSE
      OBVIOUS
    <3>2. fault = "drop" /\ DropIn # {} /\ pc \in Running
      BY <2>3, <3>1 DEF PhaseInv
    <3>3. cycles = 0
      BY <3>2 DEF PhaseInv, FirstConnection
    <3> QED BY <2>1, <2>3, <3>2, <3>3, OracleAssumption DEF Reconnects
  <2>4. ASSUME Reconnects \/ fault # "drop"
        PROVE  /\ want["primary"] = want["mirror"]
               /\ \A s \in Side : /\ active \subseteq want[s] /\ state[s] = Delivered(s)
                                 /\ got[s] = Served(s) \ Late(s) /\ errors_down[s] = NoErrors
               /\ error_kinds["primary"]["transformError"] = error_kinds["mirror"]["transformError"]
    <3>1. \A s \in Side : CaughtUp(s)
      BY <1>4, <2>3, <2>4, WaitedQuiet DEF Compare
    <3>2. \A s \in Side : active \subseteq want[s]
      BY <2>1, <2>3, <2>4 DEF WantInv, Side
    <3>3. want["primary"] = want["mirror"]
      BY <3>2, SidesAre DEF WantInv
    <3>4. error_kinds["primary"]["transformError"] = error_kinds["mirror"]["transformError"]
      BY <2>1, <3>1, EqualForwards DEF CaughtUp
    <3> QED BY <3>1, <3>2, <3>3, <3>4, CaughtUpDelivered
  <2>5. \A s \in Side : /\ Delivered(s)' = Delivered(s) /\ Late(s)' = Late(s)
                        /\ Served(s)' = Served(s)
    BY <2>1 DEF Delivered, Late, Served, Current
  <2> QED BY <2>1, <2>2, <2>4, <2>5 DEF SettledInv
<1>5. ASSUME NEW s \in Side, OpenSocket(s)
      PROVE  SettledInv'
  BY <1>2, <1>5 DEF OpenSocket, Opening
<1>6. CASE Churn \/ ChurnMirror \/ ChurnEnds
  BY <1>2, <1>6 DEF Churn, ChurnMirror, SendRaises, ChurnEnds
<1>7. CASE WriteWhileAway \/ Reconnect \/ Away
  BY <1>2, <1>7 DEF WriteWhileAway, Reconnect, Away
<1>8. CASE TimeUp \/ Done
  BY <1>1, <1>8 DEF TimeUp, Done, vars, runVars, matVars, netVars, dbVars, cacheVars
<1>9. CASE Mutate \/ MutationLands
  <2>1. pc' = pc /\ pc # "done"
    BY <1>9 DEF Mutate, MutationLands, runVars
  <2> QED BY <1>2, <2>1
<1>10. ASSUME NEW s \in Side, Reader(s)
       PROVE  SettledInv'
  <2>1. pc' = pc /\ pc # "done"
    BY <1>10 DEF Reader, OnPokeStart, OnPokePart, OnPokeEnd, OnError, Receive, Listening, runVars
  <2> QED BY <1>2, <2>1
<1>11. ASSUME NEW s \in Side, Cache(s) \/ Drop(s)
       PROVE  SettledInv'
  BY <1>1, <1>11 DEF Cache, Replicate, Poke, Drop, runVars, matVars, netVars, dbVars, cacheVars
<1>12. ASSUME NEW s \in Side, Refuse(s)
       PROVE  SettledInv'
  BY <1>2, <1>12 DEF Refuse, runVars
<1> QED BY <1>1, <1>3, <1>4, <1>5, <1>6, <1>7, <1>8, <1>9, <1>10, <1>11, <1>12
       DEF Next, Pair, vars, runVars, matVars, netVars, dbVars, cacheVars

-----------------------------------------------------------------------------
(* The theorems about the verdict. *)

PairInv == /\ OracleTypes /\ MatInv /\ PhaseInv /\ WantInv /\ GotInv /\ ChainInv /\ AckInv
           /\ ErrInv /\ SettledInv

LEMMA PairInitial == Init => PairInv
BY TypesInitial, MatInitial, PhaseInitial, WantInitial, GotInitial, ChainInitial, AckInitial,
   ErrInitial, SettledInitial DEF PairInv

LEMMA PairInductive ==
  ASSUME ~Cancels, Prompt, PairInv, [Next]_vars
  PROVE  PairInv'
BY TypesInductive, MatInductive, PhaseInductive, WantInductive, GotInductive, ChainInductive,
   AckInductive, ErrInductive, SettledInductive DEF PairInv

LEMMA PairInvariant ==
  ASSUME ~Cancels, Prompt
  PROVE  Spec => []PairInv
<1>1. Init => PairInv
  BY PairInitial
<1>2. PairInv /\ [Next]_vars => PairInv'
  BY PairInductive
<1> QED BY <1>1, <1>2, PTL DEF Spec

(* DiffOracle.SoundVerdict: two caches that deliver what they should pass (amain's exit 0), *)
(* whatever the order and batching of their pokes, whatever POSTs are lost or late and       *)
(* although the app server rejects a query, provided the quiet periods are long enough, no   *)
(* cache answers with an error, and a connection that broke is reopened before the           *)
(* comparison.                                                                               *)
THEOREM SoundVerdictHolds ==
  ASSUME ~Cancels, Prompt, Reconnects
  PROVE  Spec => []SoundVerdict
<1>1. ASSUME PairInv PROVE SoundVerdict
  <2>1. SUFFICES ASSUME pc = "done", fault \in {"none", "drop", "error", "reject"}, ~conn_error,
                        ~resume_error, \A s \in Side : error_kinds[s]["error"] = 0
                 PROVE  verdict = "PASS"
    BY DEF SoundVerdict
  <2>2. /\ verdict = IF OracleFailed THEN "FAIL" ELSE "PASS"
        /\ want["primary"] = want["mirror"]
        /\ \A s \in Side : state[s] = Delivered(s) /\ got[s] = Served(s) \ Late(s)
    BY <1>1, <2>1 DEF PairInv, SettledInv
  <2>9. ~ProtocolErrors
    BY <1>1, <2>1 DEF PairInv, SettledInv, ProtocolErrors
  <2>3. \A s \in Side : ~chain_violation[s]
    BY <1>1, <2>1 DEF PairInv, ChainInv, Chained
  <2>4. Late("primary") = {} /\ Late("mirror") = {}
    BY <2>1 DEF Late
  <2>5. got["primary"] = got["mirror"]
    BY <2>2, <2>4, SidesAre DEF Served
  <2>6. Delivered("primary") = Delivered("mirror")
    BY <2>1, <2>2 DEF Delivered, Served
  <2>7. state["primary"] = state["mirror"]
    BY <2>2, <2>6, SidesAre
  <2>8. Mismatches = {} /\ HydrationGap = {}
    BY <2>5, <2>7 DEF Mismatches, HydrationGap
  <2> QED BY <2>1, <2>2, <2>3, <2>8, <2>9 DEF OracleFailed
<1> QED BY <1>1, PairInvariant, PTL

(* DiffOracle.PassMeansConverged: exit 0 means that both sides hold exactly the rows of the *)
(* database for everything run_pair last asked for.                                          *)
THEOREM PassMeansConvergedHolds ==
  ASSUME ~Cancels, Prompt, Reconnects
  PROVE  Spec => []PassMeansConverged
<1>1. ASSUME PairInv PROVE PassMeansConverged
  <2>1. SUFFICES ASSUME verdict = "PASS", NEW s \in Side
                 PROVE  active \subseteq want[s] /\ state[s] = Expected(s)
    BY DEF PassMeansConverged
  <2>2. pc = "done"
    BY <1>1, <2>1 DEF PairInv, PhaseInv
  <2>3. ~OracleFailed
    BY <1>1, <2>1, <2>2 DEF PairInv, SettledInv
  <2>4. /\ want["primary"] = want["mirror"]
        /\ \A x \in Side : active \subseteq want[x] /\ state[x] = Delivered(x)
    BY <1>1, <2>2, <2>3 DEF PairInv, SettledInv, OracleFailed
  <2>5. state["primary"] = state["mirror"]
    <3>1. state["primary"] \in [Keys -> Nat] /\ state["mirror"] \in [Keys -> Nat]
      BY <1>1, SidesAre DEF PairInv, OracleTypes
    <3>2. \A k \in Keys : state["primary"][k] = state["mirror"][k]
      BY <2>3 DEF OracleFailed, Mismatches
    <3> QED BY <3>1, <3>2
  <2>6. state["primary"] = Expected("primary")
    BY <2>4, SidesAre DEF Delivered, Expected
  <2>7. Expected("mirror") = Expected("primary")
    BY <2>4 DEF Expected, Served
  <2>8. state[s] = Expected(s)
    BY <2>5, <2>6, <2>7 DEF Side
  <2> QED BY <2>4, <2>8
<1> QED BY <1>1, PairInvariant, PTL

(* DiffOracle.DivergenceReported: a cache that withholds a row or an acknowledgement, or    *)
(* breaks the cookie chain, or answers with an error, never gets exit 0; of connections      *)
(* nothing is assumed.                                                                       *)
THEOREM DivergenceReportedHolds ==
  ASSUME ~Cancels, Prompt
  PROVE  Spec => []DivergenceReported
<1>1. ASSUME PairInv, pc = "done", fault # "drop", verdict # "FAIL"
      PROVE  /\ ~OracleFailed /\ want["primary"] = want["mirror"]
             /\ \A s \in Side : /\ state[s] = Delivered(s) /\ got[s] = Served(s) \ Late(s)
                               /\ errors_down[s] = NoErrors
  <2>1. ~OracleFailed
    BY <1>1 DEF PairInv, SettledInv
  <2> QED BY <1>1, <2>1 DEF PairInv, SettledInv, OracleFailed
<1>2. ASSUME PairInv, pc = "done", fault = "row", verdict # "FAIL"
      PROVE  Expected("mirror")[FaultyKey] = 0
  <2>1. FaultyKey \in Keys
    BY OracleAssumption
  <2>2. state["mirror"][FaultyKey] = 0
    <3>1. state["mirror"] = Delivered("mirror")
      BY <1>1, <1>2, SidesAre
    <3>2. Delivered("mirror")[FaultyKey] = 0
      BY <1>2, <2>1 DEF Delivered
    <3> QED BY <3>1, <3>2
  <2>3. state["primary"][FaultyKey] = state["mirror"][FaultyKey]
    BY <1>1, <1>2, <2>1 DEF OracleFailed, Mismatches
  <2>4. state["primary"] = Expected("primary")
    BY <1>1, <1>2, SidesAre DEF Delivered, Expected
  <2>5. Expected("mirror") = Expected("primary")
    BY <1>1, <1>2 DEF Expected, Served
  <2> QED BY <2>2, <2>3, <2>4, <2>5
<1>3. ASSUME PairInv, pc = "done", fault = "got", verdict # "FAIL"
      PROVE  FaultyQuery \notin want["mirror"]
  <2>1. got["primary"] = want["primary"] /\ FaultyQuery \notin got["mirror"]
    BY <1>1, <1>3, SidesAre DEF Late, Served
  <2>2. got["primary"] \subseteq got["mirror"]
    BY <1>1, <1>3 DEF OracleFailed, HydrationGap
  <2> QED BY <1>1, <1>3, <2>1, <2>2
<1>4. ASSUME PairInv, pc = "done", fault = "chain", verdict # "FAIL"
      PROVE  ~(cookie["mirror"] > 1)
  <2>1. cookie["mirror"] > 1 => chain_violation["mirror"]
    BY <1>4, SidesAre DEF PairInv, ChainInv, Chained
  <2> QED BY <1>1, <1>4, <2>1, SidesAre DEF OracleFailed
<1>5. ASSUME PairInv, pc = "done", fault = "error", verdict # "FAIL", NEW s \in Side
      PROVE  ~(ErrorsOf(s) > 0)
  <2>1. errors_down[s]["error"] = 0
    BY <1>1, <1>5 DEF NoErrors, Kinds
  <2>2. error_kinds[s]["error"] = 0
    BY <1>1, <1>5 DEF OracleFailed, ProtocolErrors
  <2> QED BY <2>1, <2>2 DEF ErrorsOf
<1>6. PairInv => DivergenceReported
  BY <1>2, <1>3, <1>4, <1>5 DEF DivergenceReported
<1> QED BY <1>6, PairInvariant, PTL

(* DiffOracle.EveryWriteApplies: with one resume cycle and quiet periods that are long       *)
(* enough, the ids of the mutator and those of the resume writes form one sequence, and the  *)
(* database refuses none of them unless a POST was lost or came after the sockets were       *)
(* closed, or the primary's connection broke.                                                *)
THEOREM EveryWriteAppliesHolds ==
  ASSUME ~Cancels, Prompt, Cycles <= 1
  PROVE  Spec => []EveryWriteApplies
<1>1. Init => PairInv /\ IdInv
  BY PairInitial, IdInitial
<1>2. PairInv /\ IdInv /\ [Next]_vars => (PairInv /\ IdInv)'
  BY PairInductive, IdInductive DEF PairInv
<1>3. IdInv => EveryWriteApplies
  BY DEF IdInv, EveryWriteApplies
<1> QED BY <1>1, <1>2, <1>3, PTL DEF Spec
=============================================================================
