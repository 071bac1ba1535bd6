------------------------- MODULE ReplayClientProofs -------------------------
(***************************************************************************)
(* What TLAPS proves of ReplayClient, for every value of its constants.    *)
(*                                                                         *)
(* Every invariant below is about sequences of frames or pushes in flight, *)
(* so the proofs rest on three facts about them: what a prefix, a tail and *)
(* an extended sequence contain.                                           *)
(***************************************************************************)
EXTENDS ReplayClient, SequenceTheorems, TLAPS

(* A prefix holds the same elements at the same places. *)
LEMMA PrefixFacts ==
  ASSUME NEW S, NEW s \in Seq(S), NEW n \in 0 .. Len(s)
  PROVE  /\ SubSeq(s, 1, n) \in Seq(S)
         /\ Len(SubSeq(s, 1, n)) = n
         /\ \A i \in 1 .. n : SubSeq(s, 1, n)[i] = s[i]
<1>1. n \in Int /\ 1 \in Int /\ Len(s) \in Nat
  BY LenProperties
<1>2. \A i \in 1 .. n : i \in 1 .. Len(s)
  BY <1>1
<1>3. \A i \in 1 .. n : s[i] \in S
  BY <1>2, ElementOfSeq
<1>4. /\ SubSeq(s, 1, n) \in Seq(S)
      /\ Len(SubSeq(s, 1, n)) = IF 1 <= n THEN n - 1 + 1 ELSE 0
      /\ \A i \in 1 .. n - 1 + 1 : SubSeq(s, 1, n)[i] = s[1 + i - 1]
  BY <1>1, <1>3, SubSeqProperties
<1>5. n \in Nat /\ (IF 1 <= n THEN n - 1 + 1 ELSE 0) = n /\ n - 1 + 1 = n
  BY <1>1
<1>6. \A i \in 1 .. n : 1 + i - 1 = i
  OBVIOUS
<1> QED
  BY <1>4, <1>5, <1>6

-----------------------------------------------------------------------------
(* Type correctness.  base_cookie indexes the server's versions, so the     *)
(* cookies still in flight must name committed versions as well.            *)
CookiesCommitted ==
  \A i \in 1 .. Len(down) :
     down[i].tag = "pokeEnd" /\ ~down[i].cancel => down[i].pid \in 1 .. Len(cvr)

TypeInv == TypeOK /\ CookiesCommitted

LEMMA TypeInit == Init => TypeInv
<1> SUFFICES ASSUME Init PROVE TypeInv
  OBVIOUS
<1>1. <<>> \in Seq(Nat) /\ <<>> \in Seq(Frames) /\ Len(<<>>) = 0
  BY EmptySeq
<1>2. is_zombie \in BOOLEAN
  BY DEF Init
<1>3. Len(cvr) = 0 /\ base_cookie = 0 /\ base_cookie \in 0 .. Len(cvr)
  BY <1>1 DEF Init, NoCookie
<1>4. TypeOK
  <2>1. /\ phase \in {"top", "live", "reap", "done"}
        /\ first_session \in BOOLEAN /\ stop \in BOOLEAN
        /\ session_over \in BOOLEAN /\ run_over \in BOOLEAN /\ gap \in BOOLEAN
    BY DEF Init
  <2>2. /\ cid \in Nat /\ retired_pending \subseteq Nat /\ announced \subseteq Nat
        /\ invariants \subseteq Alarms
    BY DEF Init
  <2>3. /\ reader \in {"recv", "done"} /\ churn \in {"run", "done"}
        /\ mutator \in {"sleep", "post", "done"} /\ attempt \in 0 .. 2
        /\ reply \in {"none", "ok", "rejected", "alreadyProcessed", "oooMutation"}
        /\ conn \in {"none", "open", "dropped"}
    BY DEF Init
  <2>4. /\ mid \in Nat /\ acked \in Nat /\ poke_open \in Nat /\ sessions \in Nat
        /\ mutations_sent \in Nat /\ mutation_ok \in Nat
        /\ mutation_err \in Nat /\ mutation_abandoned \in Nat
        /\ lmid \in Nat /\ view \in Nat /\ poked \in Nat
    BY DEF Init, NoPoke
  <2>5. up \in Seq(Nat) /\ down \in Seq(Frames) /\ cvr \in Seq(Nat)
    BY <1>1 DEF Init
  <2> QED
    BY <1>2, <1>3, <2>1, <2>2, <2>3, <2>4, <2>5 DEF TypeOK
<1>5. CookiesCommitted
  BY <1>1 DEF Init, CookiesCommitted
<1> QED
  BY <1>4, <1>5 DEF TypeInv

LEMMA FrameKinds ==
  /\ \A p \in Nat : [tag |-> "pokeStart", pid |-> p] \in Frames
  /\ \A p, l \in Nat : [tag |-> "pokePart", pid |-> p, lm |-> l] \in Frames
  /\ \A p \in Nat : \A c \in BOOLEAN :
        [tag |-> "pokeEnd", pid |-> p, cancel |-> c] \in Frames
  /\ \A d \in Nat : \A e \in BOOLEAN :
        [tag |-> "pushResponse", id |-> d, error |-> e] \in Frames
  /\ [tag |-> "error"] \in Frames
  BY DEF Frames

(* What a frame of each tag carries. *)
LEMMA FrameFields ==
  ASSUME NEW m \in Frames
  PROVE  /\ m.tag = "pokeStart" => m.pid \in Nat
         /\ m.tag = "pokePart" => m.pid \in Nat /\ m.lm \in Nat
         /\ m.tag = "pokeEnd" => m.pid \in Nat /\ m.cancel \in BOOLEAN
         /\ m.tag = "pushResponse" => m.id \in Nat /\ m.error \in BOOLEAN
  BY DEF Frames

(* Taking the first frame leaves well-typed frames. *)
LEMMA HeadDown ==
  ASSUME TypeInv, down # <<>>
  PROVE  /\ Head(down) \in Frames /\ Head(down) = down[1]
         /\ 1 \in 1 .. Len(down)
         /\ Tail(down) \in Seq(Frames)
         /\ Len(Tail(down)) = Len(down) - 1
         /\ \A i \in 1 .. Len(Tail(down)) : /\ Tail(down)[i] = down[i + 1]
                                            /\ i + 1 \in 1 .. Len(down)
<1>1. down \in Seq(Frames)
  BY DEF TypeInv, TypeOK
<1>2. /\ Head(down) \in Frames
      /\ Tail(down) \in Seq(Frames)
      /\ Len(Tail(down)) = Len(down) - 1
      /\ \A i \in 1 .. Len(Tail(down)) : Tail(down)[i] = down[i + 1]
  BY <1>1, HeadTailProperties
<1>3. Len(down) \in Nat \ {0}
  BY <1>1, EmptySeq
<1>4. \A i \in 1 .. Len(Tail(down)) : i + 1 \in 1 .. Len(down)
  BY <1>2, <1>3
<1>5. Head(down) = down[1]
  BY <1>1
<1> QED
  BY <1>2, <1>3, <1>4, <1>5

LEMMA LargerOfNat ==
  ASSUME NEW a \in Nat, NEW b \in Nat
  PROVE  /\ L!LargerOf(a, b) \in Nat
         /\ L!LargerOf(a, b) >= a
         /\ L!LargerOf(a, b) >= b
         /\ L!LargerOf(a, b) \in {a, b}
  BY DEF L!LargerOf

(* What opens a session, or fails to, keeps the types. *)
LEMMA TypeNewSession ==
  ASSUME TypeInv, NewSession, CookiesCommitted',
         phase' \in {"live", "reap", "done"}, first_session' \in BOOLEAN,
         sessions' \in Nat, retired_pending' \subseteq Nat,
         reader' \in {"recv", "done"}, churn' \in {"run", "done"},
         mutator' \in {"sleep", "post", "done"}, conn' \in {"none", "open", "dropped"},
         up' = up, down' \in Seq(Frames), cvr' = cvr, lmid' = lmid, view' = view,
         poked' \in Nat, announced' \subseteq Nat, gap' = gap
  PROVE  TypeInv'
  BY DEF TypeInv, TypeOK, NewSession, Rewind, FreshPoke, NoPoke, mutStats

LEMMA TypeLoop ==
  ASSUME TypeInv, Loop
  PROVE  TypeInv'
<1> USE DEF loopVars, taskVars, pokeVars, mutStats, clockVars, netVars, serverVars
<1>1. CASE Open
  <2>1. poked' \in Nat
    <3>1. base_cookie # NoCookie => cvr[base_cookie] \in Nat
      <4>1. cvr \in Seq(Nat) /\ base_cookie \in 0 .. Len(cvr) /\ Len(cvr) \in Nat
        BY LenProperties DEF TypeInv, TypeOK
      <4> QED
        BY <4>1, ElementOfSeq DEF NoCookie
    <3> QED
      BY <1>1, <3>1 DEF Open
  <2>2. down' \in Seq(Frames) /\ CookiesCommitted'
    BY <1>1, EmptySeq DEF Open, CookiesCommitted
  <2>3. /\ sessions \in Nat /\ announced \subseteq Nat /\ retired_pending \subseteq Nat
    BY DEF TypeInv, TypeOK
  <2>4. /\ NewSession
        /\ phase' \in {"live", "reap", "done"} /\ first_session' \in BOOLEAN
        /\ retired_pending' \subseteq Nat
        /\ reader' \in {"recv", "done"} /\ churn' \in {"run", "done"}
        /\ mutator' \in {"sleep", "post", "done"} /\ conn' \in {"none", "open", "dropped"}
        /\ up' = up /\ cvr' = cvr /\ lmid' = lmid /\ view' = view /\ gap' = gap
    BY <1>1 DEF Open, Opened
  <2>5. sessions' \in Nat /\ announced' \subseteq Nat
    BY <1>1, <2>3 DEF Open, Opened
  <2> QED
    BY <2>1, <2>2, <2>4, <2>5, TypeNewSession
<1>2. CASE OpenThenSendFails
  <2>1. CookiesCommitted' /\ down' \in Seq(Frames)
    BY <1>2 DEF OpenThenSendFails, TypeInv, TypeOK, CookiesCommitted
  <2>2. /\ sessions \in Nat /\ announced \subseteq Nat /\ poked \in Nat
        /\ reader \in {"recv", "done"} /\ churn \in {"run", "done"}
        /\ mutator \in {"sleep", "post", "done"} /\ conn \in {"none", "open", "dropped"}
    BY DEF TypeInv, TypeOK
  <2>3. /\ NewSession
        /\ phase' \in {"live", "reap", "done"} /\ first_session' \in BOOLEAN
        /\ retired_pending' \subseteq Nat
        /\ up' = up /\ cvr' = cvr /\ lmid' = lmid /\ view' = view /\ gap' = gap
    BY <1>2 DEF OpenThenSendFails, Opened
  <2>4. /\ sessions' \in Nat /\ announced' \subseteq Nat /\ poked' \in Nat
        /\ reader' \in {"recv", "done"} /\ churn' \in {"run", "done"}
        /\ mutator' \in {"sleep", "post", "done"} /\ conn' \in {"none", "open", "dropped"}
    BY <1>2, <2>2 DEF OpenThenSendFails, Opened
  <2> QED
    BY <2>1, <2>3, <2>4, TypeNewSession
<1>3. CASE OpenFails
  BY <1>3, TypeNewSession DEF OpenFails, TypeInv, TypeOK, CookiesCommitted
<1>4. CASE Teardown
  <2>1. up' \in Seq(Nat)
    <3>1. up \in Seq(Nat) /\ Len(up) \in Nat
      BY LenProperties DEF TypeInv, TypeOK
    <3>2. PICK n \in 0 .. Len(up) : up' = SubSeq(up, 1, n)
      BY <1>4, <3>1 DEF Teardown
    <3> QED
      BY <3>1, <3>2, PrefixFacts
  <2>2. down' \in Seq(Frames) /\ CookiesCommitted'
    BY <1>4, EmptySeq DEF Teardown, CookiesCommitted
  <2> QED
    BY <1>4, <2>1, <2>2 DEF Teardown, TypeInv, TypeOK
<1>5. CASE Leave \/ Return
  <2>1. mutation_abandoned' \in Nat
    BY <1>5 DEF Leave, Return, Abandon, Discarded, L!LargerOf, TypeInv, TypeOK
  <2>2. CASE Leave
    BY <2>1, <2>2 DEF Leave, Abandon, TypeInv, TypeOK, CookiesCommitted
  <2>3. CASE Return
    BY <2>1, <2>3 DEF Return, Abandon, TypeInv, TypeOK, CookiesCommitted
  <2> QED
    BY <1>5, <2>2, <2>3
<1>6. CASE Retire
  <2>1. /\ up' \in Seq(Nat) /\ cvr' \in Seq(Nat) /\ Len(cvr') = Len(cvr)
    <3>1. cvr \in Seq(Nat) /\ Len(cvr) \in Nat
      BY LenProperties DEF TypeInv, TypeOK
    <3> QED
      BY <1>6, <3>1, EmptySeq DEF Retire
  <2> QED
    BY <1>6, <2>1 DEF Retire, Abandon, Discarded, FreshAcked, L!LargerOf, TypeInv, TypeOK,
                      CookiesCommitted
<1>7. CASE Finish
  BY <1>7 DEF Finish, TypeInv, TypeOK, CookiesCommitted
<1> QED
  BY <1>1, <1>2, <1>3, <1>4, <1>5, <1>6, <1>7 DEF Loop

LEMMA TypeMutator ==
  ASSUME TypeInv, Mutator \/ ChurnExit \/ ServerPost
  PROVE  TypeInv'
<1> USE DEF loopVars, taskVars, pokeVars, mutStats, clockVars, netVars, serverVars
<1>1. CASE MutatorExit \/ ChurnExit
  BY <1>1 DEF MutatorExit, ChurnExit, TypeInv, TypeOK, CookiesCommitted
<1>2. CASE Push
  <2>1. up' \in Seq(Nat)
    BY <1>2, AppendProperties DEF Push, TypeInv, TypeOK
  <2> QED
    BY <1>2, <2>1 DEF Push, NextMutation, TypeInv, TypeOK, CookiesCommitted
<1>3. CASE PushFails
  BY <1>3 DEF PushFails, NextMutation, TypeInv, TypeOK, CookiesCommitted
<1>7. CASE Post
  BY <1>7 DEF Post, NextMutation, TypeInv, TypeOK, CookiesCommitted
<1>4. CASE PostAnswered
  BY <1>4 DEF PostAnswered, AckOfPost, L!LargerOf, TypeInv, TypeOK, CookiesCommitted
<1>5. CASE PostLost
  BY <1>5 DEF PostLost, TypeInv, TypeOK, CookiesCommitted
<1>6. CASE ServerPost
  BY <1>6 DEF ServerPost, Apply, Answers, TypeInv, TypeOK, CookiesCommitted
<1> QED
  BY <1>1, <1>2, <1>3, <1>4, <1>5, <1>6, <1>7 DEF Mutator

(* Consuming a frame shifts the others. *)
LEMMA CookiesShift ==
  ASSUME TypeInv, down # <<>>, down' = Tail(down), cvr' = cvr
  PROVE  CookiesCommitted'
  BY HeadDown DEF TypeInv, CookiesCommitted

(* What every frame handler leaves alone, or sets alike. *)
LEMMA TypeReceive ==
  ASSUME TypeInv, NEW tag, Receive(tag),
         reader' \in {"recv", "done"}, stop' \in BOOLEAN, invariants' \subseteq Alarms,
         acked' \in Nat, poke_open' \in Nat, base_cookie' \in 0 .. Len(cvr),
         mutation_ok' \in Nat, mutation_err' \in Nat
  PROVE  TypeInv'
<1>1. down' \in Seq(Frames) /\ CookiesCommitted'
  BY HeadDown, CookiesShift DEF Receive, serverVars
<1> QED
  BY <1>1 DEF Receive, TypeInv, TypeOK, clockVars, serverVars

LEMMA TypeReader ==
  ASSUME TypeInv, Reader
  PROVE  TypeInv'
<1> DEFINE m == Head(down)
<1>1. ASSUME NEW tag, Receive(tag)
      PROVE  m \in Frames /\ m = down[1] /\ 1 \in 1 .. Len(down) /\ m.tag = tag
  BY <1>1, HeadDown DEF Receive
<1>2. ReadOn \in {"recv", "done"}
  BY DEF ReadOn
<1>3. /\ stop \in BOOLEAN /\ invariants \subseteq Alarms /\ acked \in Nat
      /\ poke_open \in Nat /\ base_cookie \in 0 .. Len(cvr)
      /\ mutation_ok \in Nat /\ mutation_err \in Nat
  BY DEF TypeInv, TypeOK
<1>4. ASSUME NEW broken \in SUBSET Alarms, Raise(broken)
      PROVE  invariants' \subseteq Alarms
  BY <1>3, <1>4 DEF Raise
<1>5. CASE RecvPokeStart
  <2>1. m.pid \in Nat
    BY <1>1, <1>5, FrameFields DEF RecvPokeStart
  <2>2. invariants' \subseteq Alarms
    BY <1>3, <1>5 DEF RecvPokeStart, Raise, Alarms
  <2> QED
    BY <1>2, <1>3, <1>5, <2>1, <2>2, TypeReceive DEF RecvPokeStart, pokeVars
<1>6. CASE RecvPokePart
  <2>1. m.lm \in Nat
    BY <1>1, <1>6, FrameFields DEF RecvPokePart
  <2>2. acked' \in Nat /\ mutation_ok' \in Nat
    <3>1. acked' = L!LargerOf(acked, m.lm) /\ mutation_ok' = mutation_ok + NewlyAcked(m.lm)
      BY <1>6 DEF RecvPokePart
    <3>2. NewlyAcked(m.lm) \in Nat
      BY <1>3, <2>1 DEF NewlyAcked
    <3>3. L!LargerOf(acked, m.lm) \in Nat
      BY <1>3, <2>1, LargerOfNat
    <3> QED
      BY <1>3, <3>1, <3>2, <3>3
  <2>3. invariants' \subseteq Alarms
    BY <1>3, <1>6 DEF RecvPokePart, Raise, Alarms
  <2> QED
    BY <1>2, <1>3, <1>6, <2>2, <2>3, TypeReceive DEF RecvPokePart, pokeVars
<1>7. CASE RecvPokeEnd
  <2>1. base_cookie' \in 0 .. Len(cvr)
    <3>1. m.cancel \in BOOLEAN
      BY <1>1, <1>7, FrameFields DEF RecvPokeEnd
    <3>2. CASE m.cancel
      BY <1>3, <1>7, <3>2 DEF RecvPokeEnd, NextCookie
    <3>3. CASE ~m.cancel
      <4>1. m.pid \in 1 .. Len(cvr) /\ Len(cvr) \in Nat
        BY <1>1, <1>7, <3>3, LenProperties DEF RecvPokeEnd, TypeInv, TypeOK, CookiesCommitted
      <4>2. base_cookie' = m.pid
        BY <1>7, <3>3 DEF RecvPokeEnd, NextCookie
      <4> QED
        BY <4>1, <4>2
    <3> QED
      BY <3>1, <3>2, <3>3
  <2>2. invariants' \subseteq Alarms
    BY <1>3, <1>7 DEF RecvPokeEnd, Raise, Alarms
  <2> QED
    BY <1>2, <1>3, <1>7, <2>1, <2>2, TypeReceive DEF RecvPokeEnd, NoPoke
<1>8. CASE RecvPushResponse
  <2>1. m.id \in Nat
    BY <1>1, <1>8, FrameFields DEF RecvPushResponse
  <2>2. acked' \in Nat /\ mutation_ok' \in Nat /\ mutation_err' \in Nat
    BY <1>3, <1>8, <2>1 DEF RecvPushResponse, L!LargerOf
  <2> QED
    BY <1>2, <1>3, <1>8, <2>2, TypeReceive DEF RecvPushResponse, pokeVars
<1>9. CASE RecvError
  BY <1>3, <1>9, TypeReceive DEF RecvError, pokeVars
<1>10. CASE ReaderExit
  BY <1>10 DEF ReaderExit, TypeInv, TypeOK, CookiesCommitted, loopVars, pokeVars, mutStats,
               clockVars, netVars, serverVars
<1> QED
  BY <1>5, <1>6, <1>7, <1>8, <1>9, <1>10 DEF Reader

(* A frame that is not the end of a poke can be queued at any time. *)
LEMMA AppendedFrame ==
  ASSUME TypeInv, NEW f \in Frames, f.tag # "pokeEnd", down' = Append(down, f), cvr' = cvr
  PROVE  down' \in Seq(Frames) /\ CookiesCommitted'
<1>1. down \in Seq(Frames) /\ Len(down) \in Nat
  BY LenProperties DEF TypeInv, TypeOK
<1>2. /\ down' \in Seq(Frames)
      /\ Len(down') = Len(down) + 1
      /\ \A i \in 1 .. Len(down) : down'[i] = down[i]
      /\ down'[Len(down) + 1] = f
  BY <1>1, AppendProperties
<1> QED
  BY <1>1, <1>2 DEF TypeInv, CookiesCommitted

(* Three frames queued behind the others. *)
LEMMA ThreeMore ==
  ASSUME NEW S, NEW s \in Seq(S), NEW a \in S, NEW b \in S, NEW c \in S
  PROVE  LET t == s \o <<a, b, c>>
         IN  /\ t \in Seq(S) /\ Len(s) \in Nat /\ Len(t) = Len(s) + 3
             /\ \A i \in 1 .. Len(s) : t[i] = s[i]
             /\ t[Len(s) + 1] = a /\ t[Len(s) + 2] = b /\ t[Len(s) + 3] = c
<1>1. <<a, b, c>> \in Seq(S) /\ Len(<<a, b, c>>) = 3 /\ Len(s) \in Nat
  BY LenProperties
<1>2. <<a, b, c>>[1] = a /\ <<a, b, c>>[2] = b /\ <<a, b, c>>[3] = c
  OBVIOUS
<1> QED
  BY <1>1, <1>2, ConcatProperties

(* A poke's frames name the version it commits. *)
LEMMA AppendedPoke ==
  ASSUME TypeInv, NEW a \in Frames, NEW b \in Frames, NEW c \in Frames,
         a.tag # "pokeEnd", b.tag # "pokeEnd", c.tag = "pokeEnd",
         c.pid = Len(cvr) + 1, down' = down \o <<a, b, c>>,
         Len(cvr') \in Nat, Len(cvr') >= Len(cvr), c.cancel \/ Len(cvr') = Len(cvr) + 1
  PROVE  down' \in Seq(Frames) /\ CookiesCommitted'
<1>1. down \in Seq(Frames) /\ Len(down) \in Nat /\ Len(cvr) \in Nat
  BY LenProperties DEF TypeInv, TypeOK
<1>2. /\ down' \in Seq(Frames) /\ Len(down') = Len(down) + 3
      /\ \A i \in 1 .. Len(down) : down'[i] = down[i]
      /\ down'[Len(down) + 1] = a /\ down'[Len(down) + 2] = b /\ down'[Len(down) + 3] = c
  BY <1>1, ThreeMore
<1>3. \A i \in 1 .. Len(down') :
         \/ i \in 1 .. Len(down) \/ i = Len(down) + 1
         \/ i = Len(down) + 2 \/ i = Len(down) + 3
  BY <1>1, <1>2
<1>4. c.cancel \in BOOLEAN
  BY FrameFields
<1>5. ASSUME NEW i \in 1 .. Len(down'), down'[i].tag = "pokeEnd", ~down'[i].cancel
      PROVE  down'[i].pid \in 1 .. Len(cvr')
  <2>1. CASE i \in 1 .. Len(down)
    <3>1. down[i].pid \in 1 .. Len(cvr)
      BY <1>2, <1>5, <2>1 DEF TypeInv, CookiesCommitted
    <3> QED
      BY <1>1, <1>2, <2>1, <3>1
  <2>2. CASE i = Len(down) + 3
    BY <1>1, <1>2, <1>5, <2>2
  <2> QED
    BY <1>2, <1>3, <1>5, <2>1, <2>2
<1> QED
  BY <1>2, <1>5 DEF CookiesCommitted

LEMMA TypeEnvironment ==
  ASSUME TypeInv,
         \/ SessionDeadline \/ RunDeadline \/ Drop
         \/ ServerApply \/ ServerReplicate \/ ServerPoke \/ ServerError
         \/ Terminated \/ UNCHANGED vars
  PROVE  TypeInv'
<1> USE DEF clientVars, loopVars, taskVars, pokeVars, mutStats, clockVars, netVars, serverVars
<1>1. /\ up \in Seq(Nat) /\ down \in Seq(Frames) /\ cvr \in Seq(Nat)
      /\ Len(up) \in Nat /\ Len(down) \in Nat /\ Len(cvr) \in Nat
  BY LenProperties DEF TypeInv, TypeOK
<1>2. CASE SessionDeadline
  BY <1>2 DEF SessionDeadline, TypeInv, TypeOK, CookiesCommitted
<1>9. CASE RunDeadline
  BY <1>9 DEF RunDeadline, TypeInv, TypeOK, CookiesCommitted
<1>3. CASE Drop
  <2>1. PICK n \in 0 .. Len(up) : up' = SubSeq(up, 1, n)
    BY <1>3 DEF Drop
  <2>2. PICK k \in 0 .. Len(down) : down' = SubSeq(down, 1, k)
    BY <1>3 DEF Drop
  <2>3. up' \in Seq(Nat)
    BY <1>1, <2>1, PrefixFacts
  <2>4. /\ down' \in Seq(Frames)
        /\ \A i \in 1 .. Len(down') : i \in 1 .. Len(down) /\ down'[i] = down[i]
    BY <1>1, <2>2, PrefixFacts
  <2>5. cvr' = cvr
    BY <1>3 DEF Drop
  <2>6. CookiesCommitted'
    BY <2>4, <2>5 DEF TypeInv, CookiesCommitted
  <2> QED
    BY <1>3, <2>3, <2>4, <2>5, <2>6 DEF Drop, TypeInv, TypeOK
<1>4. CASE ServerApply
  <2>1. up # <<>> /\ up' = Tail(up) /\ cvr' = cvr
    BY <1>4 DEF ServerApply
  <2>2. Head(up) \in Nat /\ up' \in Seq(Nat)
    BY <1>1, <2>1, HeadTailProperties
  <2>3. down' \in Seq(Frames) /\ CookiesCommitted'
    <3>1. CASE down' = down
      BY <1>1, <2>1, <3>1 DEF TypeInv, CookiesCommitted
    <3>2. ASSUME NEW e \in BOOLEAN,
                 down' = Append(down, [tag |-> "pushResponse", id |-> Head(up), error |-> e])
          PROVE  down' \in Seq(Frames) /\ CookiesCommitted'
      BY <1>1, <2>1, <2>2, <3>2, FrameKinds, AppendedFrame
    <3>3. \A answer \in Answers(Head(up)) : (answer # "ok") \in BOOLEAN
      OBVIOUS
    <3> QED
      BY <1>4, <3>1, <3>2, <3>3 DEF ServerApply
  <2>4. lmid' \in Nat /\ gap' \in BOOLEAN
    BY <1>4, <2>2 DEF ServerApply, Apply, TypeInv, TypeOK
  <2> QED
    BY <1>4, <2>1, <2>2, <2>3, <2>4 DEF ServerApply, TypeInv, TypeOK
<1>5. CASE ServerReplicate
  BY <1>5 DEF ServerReplicate, TypeInv, TypeOK, CookiesCommitted
<1>6. CASE ServerPoke
  <2> DEFINE pid == Len(cvr) + 1
             lm == IF view > poked THEN view ELSE 0
             start == [tag |-> "pokeStart", pid |-> pid]
             part == [tag |-> "pokePart", pid |-> pid, lm |-> lm]
             end(cancel) == [tag |-> "pokeEnd", pid |-> pid, cancel |-> cancel]
  <2>1. PICK cancel \in BOOLEAN :
           /\ down' = down \o <<start, part, end(cancel)>>
           /\ cvr' = IF cancel THEN cvr ELSE Append(cvr, view)
           /\ poked' = IF cancel THEN poked ELSE view
    BY <1>6 DEF ServerPoke
  <2>2. view \in Nat /\ poked \in Nat /\ lm \in Nat /\ pid \in Nat
    BY <1>1 DEF TypeInv, TypeOK
  <2>3. start \in Frames /\ part \in Frames /\ end(cancel) \in Frames
    BY <2>2, FrameKinds
  <2>4. cvr' \in Seq(Nat) /\ Len(cvr') = (IF cancel THEN Len(cvr) ELSE Len(cvr) + 1)
    BY <1>1, <2>1, <2>2, AppendProperties
  <2>5. poked' \in Nat
    BY <2>1, <2>2
  <2>6. down' \in Seq(Frames) /\ CookiesCommitted'
    <3>1. /\ start.tag # "pokeEnd" /\ part.tag # "pokeEnd" /\ end(cancel).tag = "pokeEnd"
          /\ end(cancel).pid = Len(cvr) + 1 /\ end(cancel).cancel = cancel
      OBVIOUS
    <3>2. /\ Len(cvr') \in Nat /\ Len(cvr') >= Len(cvr)
          /\ cancel \/ Len(cvr') = Len(cvr) + 1
      BY <1>1, <2>4
    <3> HIDE DEF start, part, end, pid
    <3> QED
      BY <2>1, <2>3, <3>1, <3>2, AppendedPoke
  <2> QED
    BY <1>6, <2>4, <2>5, <2>6 DEF ServerPoke, TypeInv, TypeOK
<1>7. CASE ServerError
  <2>1. down' \in Seq(Frames) /\ CookiesCommitted'
    BY <1>1, <1>7, FrameKinds, AppendedFrame DEF ServerError
  <2> QED
    BY <1>7, <2>1 DEF ServerError, TypeInv, TypeOK
<1>8. CASE Terminated \/ UNCHANGED vars
  <2>1. UNCHANGED vars
    BY <1>8 DEF Terminated
  <2> QED
    BY <2>1 DEF vars, TypeInv, TypeOK, CookiesCommitted
<1> QED
  BY <1>2, <1>3, <1>4, <1>5, <1>6, <1>7, <1>8, <1>9

LEMMA TypeStep == TypeInv /\ [Next]_vars => TypeInv'
  BY TypeLoop, TypeMutator, TypeReader, TypeEnvironment DEF Next

(* Every variable keeps its type in every behaviour, and the cookies in     *)
(* flight name versions the server has committed.                           *)
THEOREM TypeInvariant == Spec => []TypeInv
  BY TypeInit, TypeStep, PTL DEF Spec

(* The type invariant that every run checks.                                *)
THEOREM TypeCorrect == Spec => []TypeOK
<1>1. TypeInv => TypeOK
  BY DEF TypeInv
<1> QED
  BY <1>1, TypeInvariant, PTL
=============================================================================
