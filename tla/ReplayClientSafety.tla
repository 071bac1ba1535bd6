-------------------------- MODULE ReplayClientSafety --------------------------
(***************************************************************************)
(* The safety theorems of ReplayClient, for every value of its constants.  *)
(*                                                                         *)
(* The strengthening is in four parts.  Backed: every acknowledgement      *)
(* held, in flight or waiting is covered by the server's record.           *)
(* Contiguous: the ids queued for the server leave no gap above it.        *)
(* Balanced: no id is counted both as acknowledged and as attempted later. *)
(* Orderly: the frames on the wire are whole pokes whose lmids rise, and a *)
(* cookie comes after the acknowledgements its version records.            *)
(***************************************************************************)
EXTENDS ReplayClientProofs

FrameBacked(f, n) ==
  /\ f.tag = "pokePart" => f.lm <= n
  /\ f.tag = "pushResponse" => PushResponses /\ f.id <= n

Backed ==
  /\ acked <= lmid /\ view <= lmid
  /\ \A i \in 1 .. Len(down) : FrameBacked(down[i], lmid)
  /\ reply = "ok" => mid <= lmid
  /\ mutator # "post" => reply = "none"
  /\ Transport = "ws" => mutator # "post"
  /\ phase # "live" => conn = "none" /\ down = <<>> /\ mutator = "done"

(* The i-th id queued follows the server's record or an id ahead of it. *)
Follows(i) == up[i] <= lmid + 1 \/ \E j \in 1 .. i - 1 : up[i] <= up[j] + 1

(* The last id taken is at the server or on its way. *)
Reached == mid <= lmid \/ \E j \in 1 .. Len(up) : mid <= up[j]

Contiguous ==
  /\ Transport = "http" => up = <<>>
  /\ Transport = "ws" => ~gap
  /\ \A i \in 1 .. Len(up) : Follows(i)
  /\ Transport = "ws" /\ conn = "open" => Reached

(* The numbers every step below reasons about. *)
LEMMA Numbers ==
  ASSUME TypeInv
  PROVE  /\ acked \in Nat /\ lmid \in Nat /\ view \in Nat /\ mid \in Nat
         /\ mutation_ok \in Nat /\ mutations_sent \in Nat /\ mutation_abandoned \in Nat
         /\ up \in Seq(Nat) /\ Len(up) \in Nat
         /\ down \in Seq(Frames) /\ Len(down) \in Nat
         /\ \A i \in 1 .. Len(up) : up[i] \in Nat
         /\ \A i \in 1 .. Len(down) : down[i] \in Frames
  BY LenProperties, ElementOfSeq DEF TypeInv, TypeOK

LEMMA HeadUp ==
  ASSUME TypeInv, up # <<>>
  PROVE  /\ Head(up) = up[1] /\ up[1] \in Nat /\ 1 \in 1 .. Len(up)
         /\ Len(Tail(up)) = Len(up) - 1
         /\ \A i \in 1 .. Len(Tail(up)) : /\ Tail(up)[i] = up[i + 1]
                                          /\ i + 1 \in 1 .. Len(up)
<1>1. up \in Seq(Nat) /\ Len(up) \in Nat
  BY Numbers
<1>2. /\ Len(Tail(up)) = Len(up) - 1
      /\ \A i \in 1 .. Len(Tail(up)) : Tail(up)[i] = up[i + 1]
  BY <1>1, HeadTailProperties
<1>3. Len(up) \in Nat \ {0}
  BY <1>1, EmptySeq
<1>4. Head(up) = up[1]
  BY <1>1
<1> QED
  BY <1>1, <1>2, <1>3, <1>4, Numbers

-----------------------------------------------------------------------------
(* The ids on their way to the server *)

LEMMA ContiguousInit == Init => Contiguous
  BY EmptySeq DEF Init, Contiguous

(* Steps that touch neither the pushes nor the server's record. *)
LEMMA ContiguousUnmoved ==
  ASSUME Contiguous, up' = up, lmid' = lmid, gap' = gap,
         Transport = "ws" /\ conn' = "open" => conn = "open" /\ mid' = mid
  PROVE  Contiguous'
  BY DEF Contiguous, Follows, Reached

(* Losing the last pushes keeps the order of the others. *)
LEMMA ContiguousPrefix ==
  ASSUME TypeInv, Contiguous, lmid' = lmid, gap' = gap, conn' # "open",
         NEW n \in 0 .. Len(up), up' = SubSeq(up, 1, n)
  PROVE  Contiguous'
<1>1. /\ Len(up') = n /\ n \in Nat /\ Len(up) \in Nat
      /\ \A i \in 1 .. n : up'[i] = up[i] /\ i \in 1 .. Len(up)
  BY Numbers, PrefixFacts
<1>2. Transport = "http" => up' = <<>>
  BY <1>1, Numbers, EmptySeq, PrefixFacts DEF Contiguous
<1>3. ASSUME NEW i \in 1 .. Len(up')
      PROVE  Follows(i)'
  <2>1. Follows(i) /\ up'[i] = up[i] /\ i \in 1 .. n
    BY <1>1, <1>3 DEF Contiguous
  <2>2. \A j \in 1 .. i - 1 : j \in 1 .. n
    BY <1>1, <2>1
  <2> QED
    BY <1>1, <2>1, <2>2 DEF Follows
<1> QED
  BY <1>2, <1>3 DEF Contiguous

LEMMA ContiguousPush ==
  ASSUME TypeInv, Contiguous, Push
  PROVE  Contiguous'
<1>1. /\ Transport = "ws" /\ conn = "open" /\ up' = Append(up, mid + 1)
      /\ lmid' = lmid /\ gap' = gap /\ mid' = mid + 1
  BY DEF Push, NextMutation, serverVars
<1>2. /\ Len(up') = Len(up) + 1 /\ Len(up) \in Nat
      /\ \A i \in 1 .. Len(up) : up'[i] = up[i]
      /\ up'[Len(up) + 1] = mid + 1
  BY <1>1, Numbers, AppendProperties
<1>3. ASSUME NEW i \in 1 .. Len(up')
      PROVE  Follows(i)'
  <2>1. CASE i \in 1 .. Len(up)
    <3>1. Follows(i) /\ \A j \in 1 .. i - 1 : j \in 1 .. Len(up)
      BY <1>2, <2>1 DEF Contiguous
    <3> QED
      BY <1>1, <1>2, <2>1, <3>1 DEF Follows
  <2>2. CASE i = Len(up) + 1
    <3>1. Reached
      BY <1>1 DEF Contiguous
    <3>2. CASE mid <= lmid
      BY <1>1, <1>2, <2>2, <3>2, Numbers DEF Follows
    <3>3. CASE \E j \in 1 .. Len(up) : mid <= up[j]
      <4>1. PICK j \in 1 .. Len(up) : mid <= up[j]
        BY <3>3
      <4>2. j \in 1 .. i - 1 /\ up'[j] = up[j] /\ up[j] \in Nat
        BY <1>2, <2>2, <4>1, Numbers
      <4>3. up'[i] <= up'[j] + 1
        BY <1>2, <2>2, <4>1, <4>2, Numbers
      <4> QED
        BY <4>2, <4>3 DEF Follows
    <3> QED
      BY <3>1, <3>2, <3>3 DEF Reached
  <2> QED
    BY <1>2, <2>1, <2>2
<1>4. Reached'
  <2>1. Len(up') \in 1 .. Len(up') /\ mid' <= up'[Len(up')]
    BY <1>1, <1>2, Numbers
  <2> QED
    BY <2>1 DEF Reached
<1> QED
  BY <1>1, <1>3, <1>4 DEF Contiguous

(* The server takes the first push: it is at most one above the record. *)
LEMMA ContiguousApply ==
  ASSUME TypeInv, Contiguous, ServerApply
  PROVE  /\ Contiguous'
         /\ lmid' \in Nat /\ lmid' >= lmid /\ Head(up) <= lmid'
         /\ Head(up) \in Nat /\ Head(up) <= lmid + 1
<1>1. /\ up # <<>> /\ Apply(Head(up)) /\ up' = Tail(up)
      /\ mid' = mid /\ conn' = conn
  BY DEF ServerApply, clientVars
<1>2. Transport = "ws"
  BY <1>1, ConfigAssumption DEF Contiguous
<1>3. up[1] <= lmid + 1 /\ up[1] \in Nat /\ Head(up) = up[1]
  <2>1. Follows(1) /\ Head(up) = up[1] /\ up[1] \in Nat
    BY <1>1, HeadUp DEF Contiguous
  <2>2. 1 .. 1 - 1 = {}
    OBVIOUS
  <2> QED
    BY <2>1, <2>2 DEF Follows
<1>4. lmid' \in Nat /\ lmid' >= lmid /\ up[1] <= lmid' /\ gap' = gap
  BY <1>1, <1>3, Numbers DEF Apply, Contiguous, TypeInv, TypeOK
<1>8. lmid \in Nat
  BY Numbers
<1>5. ASSUME NEW i \in 1 .. Len(up')
      PROVE  Follows(i)'
  <2>1. up'[i] = up[i + 1] /\ i + 1 \in 1 .. Len(up) /\ Follows(i + 1) /\ up[i + 1] \in Nat
    BY <1>1, HeadUp, Numbers DEF Contiguous
  <2>2. CASE up[i + 1] <= lmid + 1
    <3>1. up'[i] <= lmid' + 1
      BY <1>4, <1>8, <2>1, <2>2
    <3> QED
      BY <3>1 DEF Follows
  <2>3. CASE \E j \in 1 .. (i + 1) - 1 : up[i + 1] <= up[j] + 1
    <3>1. PICK j \in 1 .. i : up[i + 1] <= up[j] + 1
      BY <2>3
    <3>2. CASE j = 1
      <4>1. up'[i] <= lmid' + 1
        BY <1>3, <1>4, <1>8, <2>1, <3>1, <3>2
      <4> QED
        BY <4>1 DEF Follows
    <3>3. CASE j # 1
      <4>1. j - 1 \in 1 .. Len(up') /\ j - 1 \in 1 .. i - 1 /\ (j - 1) + 1 = j
        BY <1>5, <3>1, <3>3
      <4>2. up'[j - 1] = up[j]
        BY <1>1, <4>1, HeadUp
      <4> QED
        BY <2>1, <3>1, <4>1, <4>2 DEF Follows
    <3> QED
      BY <3>2, <3>3
  <2> QED
    BY <2>1, <2>2, <2>3 DEF Follows
<1>6. Reached => Reached'
  <2> SUFFICES ASSUME Reached PROVE Reached'
    OBVIOUS
  <2>1. CASE mid <= lmid
    BY <1>1, <1>4, <2>1, Numbers DEF Reached
  <2>2. CASE \E j \in 1 .. Len(up) : mid <= up[j]
    <3>1. PICK j \in 1 .. Len(up) : mid <= up[j]
      BY <2>2
    <3>2. CASE j = 1
      BY <1>1, <1>3, <1>4, <3>1, <3>2, Numbers DEF Reached
    <3>3. CASE j # 1
      <4>1. j - 1 \in 1 .. Len(up') /\ (j - 1) + 1 = j
        BY <1>1, <3>1, <3>3, HeadUp, Numbers
      <4>2. up'[j - 1] = up[j]
        BY <1>1, <4>1, HeadUp
      <4> QED
        BY <1>1, <3>1, <4>1, <4>2 DEF Reached
    <3> QED
      BY <3>2, <3>3
  <2> QED
    BY <2>1, <2>2 DEF Reached
<1>7. Contiguous'
  BY <1>1, <1>2, <1>4, <1>5, <1>6 DEF Contiguous
<1> QED
  BY <1>3, <1>4, <1>7

LEMMA ContiguousStep ==
  ASSUME TypeInv, Backed, Contiguous, [Next]_vars
  PROVE  Contiguous'
<1> USE DEF clientVars, loopVars, taskVars, pokeVars, mutStats, clockVars, netVars, serverVars
<1>1. CASE Reader
  <2>1. up' = up /\ lmid' = lmid /\ gap' = gap /\ mid' = mid /\ conn' = conn
    BY <1>1 DEF Reader, RecvPokeStart, RecvPokePart, RecvPokeEnd, RecvPushResponse,
                RecvError, ReaderExit, Receive
  <2> QED
    BY <2>1, ContiguousUnmoved
<1>2. CASE Push
  BY <1>2, ContiguousPush
<1>3. CASE PushFails \/ Post
  <2>1. up' = up /\ lmid' = lmid /\ gap' = gap /\ conn' = conn
    BY <1>3 DEF PushFails, Post
  <2>2. ~(Transport = "ws" /\ conn' = "open")
    BY <1>3, <2>1 DEF PushFails, Post
  <2> QED
    BY <2>1, <2>2, ContiguousUnmoved
<1>4. CASE MutatorExit \/ PostAnswered \/ PostLost \/ ChurnExit
  <2>1. up' = up /\ lmid' = lmid /\ gap' = gap /\ mid' = mid /\ conn' = conn
    BY <1>4 DEF MutatorExit, PostAnswered, PostLost, ChurnExit
  <2> QED
    BY <2>1, ContiguousUnmoved
<1>5. CASE Open
  <2>1. up' = up /\ lmid' = lmid /\ gap' = gap /\ mid' = acked
    BY <1>5 DEF Open, Opened, NewSession, Rewind
  <2>2. Reached'
    BY <2>1 DEF Backed, Reached
  <2>3. \A i \in 1 .. Len(up') : Follows(i)'
    BY <2>1 DEF Contiguous, Follows
  <2> QED
    BY <2>1, <2>2, <2>3 DEF Contiguous
<1>6. CASE OpenThenSendFails \/ OpenFails \/ Leave \/ Return \/ Finish
  <2>1. up' = up /\ lmid' = lmid /\ gap' = gap /\ conn' = conn /\ phase # "live"
    BY <1>6 DEF OpenThenSendFails, OpenFails, Leave, Return, Finish, Opened, NewSession, Abandon
  <2> QED
    BY <2>1, ContiguousUnmoved DEF Backed
<1>7. CASE Teardown
  <2>1. lmid' = lmid /\ gap' = gap /\ conn' # "open"
    BY <1>7 DEF Teardown
  <2>2. PICK n \in 0 .. Len(up) : up' = SubSeq(up, 1, n)
    BY <1>7, Numbers DEF Teardown
  <2> QED
    BY <2>1, <2>2, ContiguousPrefix
<1>8. CASE Retire
  <2>1. up' = <<>> /\ gap' = gap /\ conn' # "open"
    BY <1>8 DEF Retire, Abandon, Backed
  <2> QED
    BY <2>1, EmptySeq DEF Contiguous
<1>9. CASE Drop
  <2>1. lmid' = lmid /\ gap' = gap /\ conn' # "open"
    BY <1>9 DEF Drop
  <2>2. PICK n \in 0 .. Len(up) : up' = SubSeq(up, 1, n)
    BY <1>9 DEF Drop
  <2> QED
    BY <2>1, <2>2, ContiguousPrefix
<1>10. CASE ServerPost
  <2>1. up' = up /\ Transport = "http"
    BY <1>10, ConfigAssumption DEF ServerPost, Backed
  <2>2. up' = <<>> /\ 1 .. Len(up') = {}
    BY <2>1, EmptySeq DEF Contiguous
  <2> QED
    BY <2>1, <2>2 DEF Contiguous
<1>11. CASE ServerApply
  BY <1>11, ContiguousApply
<1>12. CASE SessionDeadline \/ RunDeadline \/ ServerReplicate \/ ServerPoke \/ ServerError
  <2>1. up' = up /\ lmid' = lmid /\ gap' = gap /\ mid' = mid /\ conn' = conn
    BY <1>12 DEF SessionDeadline, RunDeadline, ServerReplicate, ServerPoke, ServerError
  <2> QED
    BY <2>1, ContiguousUnmoved
<1>13. CASE Terminated \/ UNCHANGED vars
  <2>1. up' = up /\ lmid' = lmid /\ gap' = gap /\ mid' = mid /\ conn' = conn
    BY <1>13 DEF Terminated, vars
  <2> QED
    BY <2>1, ContiguousUnmoved
<1> QED
  BY <1>1, <1>2, <1>3, <1>4, <1>5, <1>6, <1>7, <1>8, <1>9, <1>10, <1>11, <1>12, <1>13
     DEF Next, Mutator, Loop

-----------------------------------------------------------------------------
(* What the client holds or is about to receive is covered *)

LEMMA BackedInit == Init => Backed
  BY EmptySeq DEF Init, Backed

(* Frames lost or consumed; the record does not move back. *)
FramesBacked == \A i \in 1 .. Len(down) : FrameBacked(down[i], lmid)

LEMMA FramesKept ==
  ASSUME TypeInv, FramesBacked, lmid' \in Nat, lmid' >= lmid, down' = down
  PROVE  FramesBacked'
<1>1. ASSUME NEW i \in 1 .. Len(down')
      PROVE  FrameBacked(down[i], lmid)'
  <2>1. down'[i] = down[i] /\ down[i] \in Frames /\ FrameBacked(down[i], lmid)
    BY <1>1, Numbers DEF FramesBacked
  <2> QED
    BY <2>1, Numbers, FrameFields DEF FrameBacked
<1> QED
  BY <1>1 DEF FramesBacked

LEMMA FramesCut ==
  ASSUME TypeInv, FramesBacked, lmid' = lmid,
         NEW n \in 0 .. Len(down), down' = SubSeq(down, 1, n)
  PROVE  FramesBacked'
<1>1. Len(down') = n /\ \A i \in 1 .. n : down'[i] = down[i] /\ i \in 1 .. Len(down)
  BY Numbers, PrefixFacts
<1> QED
  BY <1>1 DEF FramesBacked, FrameBacked

LEMMA FramesConsumed ==
  ASSUME TypeInv, FramesBacked, lmid' = lmid, down # <<>>, down' = Tail(down)
  PROVE  FramesBacked' /\ Head(down) \in Frames /\ FrameBacked(Head(down), lmid)
  BY HeadDown DEF FramesBacked, FrameBacked

LEMMA FramesQueued ==
  ASSUME TypeInv, FramesBacked, lmid' \in Nat, lmid' >= lmid,
         NEW f \in Frames, FrameBacked(f, lmid'), down' = Append(down, f)
  PROVE  FramesBacked'
<1>1. /\ Len(down') = Len(down) + 1 /\ Len(down) \in Nat
      /\ \A i \in 1 .. Len(down) : down'[i] = down[i]
      /\ down'[Len(down) + 1] = f
  BY Numbers, AppendProperties
<1>2. ASSUME NEW i \in 1 .. Len(down')
      PROVE  FrameBacked(down[i], lmid)'
  <2>1. CASE i \in 1 .. Len(down)
    <3>1. down'[i] = down[i] /\ down[i] \in Frames /\ FrameBacked(down[i], lmid)
      BY <1>1, <2>1, Numbers DEF FramesBacked
    <3> QED
      BY <3>1, Numbers, FrameFields DEF FrameBacked
  <2>2. CASE i = Len(down) + 1
    BY <1>1, <2>2 DEF FrameBacked
  <2> QED
    BY <1>1, <2>1, <2>2
<1> QED
  BY <1>2 DEF FramesBacked

LEMMA FramesPoked ==
  ASSUME TypeInv, FramesBacked, lmid' = lmid,
         NEW a \in Frames, NEW b \in Frames, NEW c \in Frames,
         FrameBacked(a, lmid), FrameBacked(b, lmid), FrameBacked(c, lmid), down' = down \o <<a, b, c>>
  PROVE  FramesBacked'
<1>1. /\ Len(down') = Len(down) + 3 /\ Len(down) \in Nat
      /\ \A i \in 1 .. Len(down) : down'[i] = down[i]
      /\ down'[Len(down) + 1] = a /\ down'[Len(down) + 2] = b /\ down'[Len(down) + 3] = c
  BY Numbers, ThreeMore
<1>2. \A i \in 1 .. Len(down') :
         \/ i \in 1 .. Len(down) \/ i = Len(down) + 1
         \/ i = Len(down) + 2 \/ i = Len(down) + 3
  BY <1>1
<1>3. ASSUME NEW i \in 1 .. Len(down')
      PROVE  FrameBacked(down'[i], lmid)
  BY <1>1, <1>2, <1>3 DEF FramesBacked
<1> QED
  BY <1>3 DEF FramesBacked, FrameBacked

LEMMA BackedReader ==
  ASSUME TypeInv, Backed, Reader
  PROVE  Backed'
<1> DEFINE m == Head(down)
<1>1. /\ lmid' = lmid /\ view' = view /\ reply' = reply /\ mid' = mid
      /\ mutator' = mutator /\ phase' = phase /\ phase = "live"
  BY DEF Reader, RecvPokeStart, RecvPokePart, RecvPokeEnd, RecvPushResponse, RecvError,
         ReaderExit, Receive, loopVars, netVars, serverVars
<1>2. FramesBacked
  BY DEF Backed, FramesBacked
<1>3. ASSUME NEW tag, Receive(tag)
      PROVE  FramesBacked' /\ m \in Frames /\ FrameBacked(m, lmid) /\ m.tag = tag
  BY <1>1, <1>2, <1>3, FramesConsumed DEF Receive
<1>4. acked' <= lmid /\ FramesBacked'
  <2>1. acked \in Nat /\ lmid \in Nat /\ acked <= lmid
    BY Numbers DEF Backed
  <2>2. CASE RecvPokeStart \/ RecvPokeEnd \/ RecvError
    BY <1>3, <2>1, <2>2 DEF RecvPokeStart, RecvPokeEnd, RecvError
  <2>3. CASE RecvPokePart
    <3>1. FramesBacked' /\ m.lm \in Nat /\ m.lm <= lmid
      BY <1>3, <2>3, FrameFields DEF RecvPokePart, FrameBacked
    <3>2. acked' = L!LargerOf(acked, m.lm)
      BY <2>3 DEF RecvPokePart
    <3> QED
      BY <2>1, <3>1, <3>2 DEF L!LargerOf
  <2>4. CASE RecvPushResponse
    <3>1. FramesBacked' /\ m.id \in Nat /\ m.id <= lmid
      BY <1>3, <2>4, FrameFields DEF RecvPushResponse, FrameBacked
    <3>2. acked' = L!LargerOf(acked, m.id)
      BY <2>4 DEF RecvPushResponse
    <3> QED
      BY <2>1, <3>1, <3>2 DEF L!LargerOf
  <2>5. CASE ReaderExit
    BY <1>1, <1>2, <2>1, <2>5, FramesKept, Numbers DEF ReaderExit, netVars
  <2> QED
    BY <2>2, <2>3, <2>4, <2>5 DEF Reader
<1> QED
  BY <1>1, <1>4 DEF Backed, FramesBacked

LEMMA BackedStep ==
  ASSUME TypeInv, Backed, Contiguous, [Next]_vars
  PROVE  Backed'
<1> USE DEF clientVars, loopVars, taskVars, pokeVars, mutStats, clockVars, netVars, serverVars
<1>0. /\ acked \in Nat /\ lmid \in Nat /\ view \in Nat /\ mid \in Nat
      /\ acked <= lmid /\ view <= lmid /\ FramesBacked
  BY Numbers DEF Backed, FramesBacked
(* Steps in which only the client's control, or the clock, moves. *)
<1>1. ASSUME down' = down, lmid' = lmid, view' = view, acked' = acked
      PROVE  acked' <= lmid' /\ view' <= lmid' /\ FramesBacked'
  BY <1>0, <1>1, FramesKept
<1>2. CASE Reader
  BY <1>2, BackedReader
<1>3. CASE MutatorExit \/ Push \/ PushFails \/ Post \/ PostLost \/ ChurnExit
  <2>1. /\ down' = down /\ lmid' = lmid /\ view' = view /\ acked' = acked
        /\ phase' = phase
        /\ phase = "live" \/ mutator = "post"
    BY <1>3 DEF MutatorExit, Push, PushFails, Post, PostLost, ChurnExit, NextMutation
  <2>2. phase = "live"
    BY <2>1 DEF Backed
  <2>3. /\ reply' = "none" \/ (reply' = reply /\ mid' = mid)
        /\ mutator' # "post" => reply' = "none"
        /\ Transport = "ws" => mutator' # "post"
    <3>1. CASE MutatorExit \/ Push \/ PushFails
      <4>1. mutator = "sleep" /\ reply' = reply /\ mutator' \in {"sleep", "done"}
        BY <3>1 DEF MutatorExit, Push, PushFails, NextMutation
      <4> QED
        BY <4>1 DEF Backed
    <3>2. CASE Post
      <4>1. mutator = "sleep" /\ reply' = reply /\ mutator' = "post" /\ Transport = "http"
        BY <3>2 DEF Post, NextMutation
      <4> QED
        BY <4>1 DEF Backed
    <3>3. CASE PostLost
      BY <3>3 DEF PostLost, Backed
    <3>4. CASE ChurnExit
      BY <3>4 DEF ChurnExit, Backed
    <3> QED
      BY <1>3, <3>1, <3>2, <3>3, <3>4
  <2>4. acked' <= lmid' /\ view' <= lmid' /\ FramesBacked'
    BY <1>1, <2>1
  <2>5. reply' = "ok" => mid' <= lmid'
    BY <2>1, <2>3 DEF Backed
  <2> QED
    BY <2>1, <2>2, <2>3, <2>4, <2>5 DEF Backed, FramesBacked
<1>4. CASE PostAnswered
  <2>1. acked' <= lmid
    BY <1>0, <1>4 DEF PostAnswered, AckOfPost, L!LargerOf, Backed
  <2>2. FramesBacked'
    BY <1>0, <1>4, FramesKept DEF PostAnswered
  <2> QED
    BY <1>0, <1>4, <2>1, <2>2 DEF PostAnswered, Backed, FramesBacked
<1>5. CASE Open \/ OpenThenSendFails \/ OpenFails \/ Finish
  <2>1. /\ lmid' = lmid /\ view' = view /\ acked' = acked /\ reply' = reply
        /\ phase = "top" /\ mutator' # "post"
        /\ down' = down \/ down' = <<>>
        /\ phase' # "live" => /\ down' = down /\ conn' = conn /\ mutator' = mutator
    BY <1>5 DEF Open, OpenThenSendFails, OpenFails, Finish, Opened, NewSession, Backed
  <2>2. FramesBacked' /\ reply' = "none"
    BY <2>1, <1>1, EmptySeq DEF Backed, FramesBacked
  <2> QED
    BY <1>0, <2>1, <2>2 DEF Backed, FramesBacked
<1>6. CASE Teardown
  <2>1. /\ lmid' = lmid /\ view' = view /\ acked' = acked /\ reply' = "none"
        /\ conn' = "none" /\ down' = <<>> /\ mutator' = "done"
    BY <1>6 DEF Teardown, Backed
  <2> QED
    BY <1>0, <2>1, EmptySeq DEF Backed
<1>7. CASE Leave \/ Return
  <2>1. /\ down' = down /\ lmid' = lmid /\ view' = view /\ acked' = acked
        /\ reply' = reply /\ mutator' = mutator /\ conn' = conn /\ mid' = mid
        /\ phase # "live"
    BY <1>7 DEF Leave, Return, Abandon
  <2> QED
    BY <1>1, <2>1 DEF Backed, FramesBacked
<1>8. CASE Retire
  <2>1. /\ acked' = 0 /\ lmid' = 0 /\ view' = 0 /\ down' = <<>> /\ conn' = "none"
        /\ mutator' = "done" /\ reply' = "none"
    BY <1>8 DEF Retire, Abandon, FreshAcked, Backed
  <2> QED
    BY <2>1, EmptySeq DEF Backed
<1>9. CASE Drop
  <2>1. PICK n \in 0 .. Len(down) : down' = SubSeq(down, 1, n)
    BY <1>9 DEF Drop
  <2>2. FramesBacked'
    BY <1>0, <1>9, <2>1, FramesCut DEF Drop
  <2>3. phase = "live"
    BY <1>9 DEF Drop, Backed
  <2> QED
    BY <1>0, <1>9, <2>2, <2>3 DEF Drop, Backed, FramesBacked
<1>10. CASE ServerPost
  <2>1. /\ lmid' \in Nat /\ lmid' >= lmid
        /\ reply' = "ok" => mid' <= lmid'
    BY <1>0, <1>10 DEF ServerPost, Apply, Answers
  <2>2. FramesBacked'
    BY <1>0, <1>10, <2>1, FramesKept DEF ServerPost
  <2> QED
    BY <1>0, <1>10, <2>1, <2>2 DEF ServerPost, Backed, FramesBacked
<1>11. CASE ServerApply
  <2>1. /\ lmid' \in Nat /\ lmid' >= lmid /\ Head(up) <= lmid'
        /\ Head(up) \in Nat
    BY <1>11, ContiguousApply
  <2>2. /\ acked' = acked /\ view' = view /\ reply' = reply /\ mid' = mid
        /\ mutator' = mutator /\ phase' = phase /\ conn' = conn
        /\ down' = down \/ phase = "live"
    BY <1>11 DEF ServerApply, Backed
  <2>3. FramesBacked'
    <3>1. CASE down' = down
      BY <1>0, <2>1, <3>1, FramesKept
    <3>2. ASSUME NEW e \in BOOLEAN, PushResponses,
                 down' = Append(down, [tag |-> "pushResponse", id |-> Head(up), error |-> e])
          PROVE  FramesBacked'
      <4> DEFINE f == [tag |-> "pushResponse", id |-> Head(up), error |-> e]
      <4>1. f \in Frames /\ FrameBacked(f, lmid')
        BY <2>1, <3>2, FrameKinds DEF FrameBacked
      <4> QED
        BY <1>0, <2>1, <3>2, <4>1, FramesQueued
    <3>3. \A answer \in Answers(Head(up)) : (answer # "ok") \in BOOLEAN
      OBVIOUS
    <3> QED
      BY <1>11, <3>1, <3>2, <3>3 DEF ServerApply
  <2> QED
    BY <1>0, <2>1, <2>2, <2>3 DEF Backed, FramesBacked
<1>12. CASE ServerReplicate
  <2>1. down' = down /\ lmid' = lmid /\ view' <= lmid' /\ acked' = acked
    BY <1>0, <1>12 DEF ServerReplicate
  <2>2. FramesBacked'
    BY <1>0, <2>1, FramesKept
  <2> QED
    BY <1>0, <1>12, <2>1, <2>2 DEF ServerReplicate, Backed, FramesBacked
<1>13. CASE ServerPoke
  <2> DEFINE pid == Len(cvr) + 1
             lm == IF view > poked THEN view ELSE 0
             start == [tag |-> "pokeStart", pid |-> pid]
             part == [tag |-> "pokePart", pid |-> pid, lm |-> lm]
             end(cancel) == [tag |-> "pokeEnd", pid |-> pid, cancel |-> cancel]
  <2>1. PICK cancel \in BOOLEAN : down' = down \o <<start, part, end(cancel)>>
    BY <1>13 DEF ServerPoke
  <2>2. pid \in Nat /\ lm \in Nat /\ lm <= lmid
    BY <1>0, LenProperties DEF TypeInv, TypeOK
  <2>3. start \in Frames /\ part \in Frames /\ end(cancel) \in Frames
    BY <2>2, FrameKinds
  <2>4. FrameBacked(start, lmid) /\ FrameBacked(part, lmid) /\ FrameBacked(end(cancel), lmid)
    BY <2>2 DEF FrameBacked
  <2>5. FramesBacked'
    <3>1. lmid' = lmid
      BY <1>13 DEF ServerPoke
    <3> HIDE DEF start, part, end
    <3> QED
      BY <1>0, <2>1, <2>3, <2>4, <3>1, FramesPoked
  <2>6. phase = "live"
    BY <1>13 DEF ServerPoke, Backed
  <2> QED
    BY <1>0, <1>13, <2>5, <2>6 DEF ServerPoke, Backed, FramesBacked
<1>14. CASE ServerError
  <2>1. FramesBacked'
    <3>1. [tag |-> "error"] \in Frames /\ FrameBacked([tag |-> "error"], lmid')
      BY FrameKinds DEF FrameBacked
    <3> QED
      BY <1>0, <1>14, <3>1, FramesQueued DEF ServerError
  <2>2. phase = "live"
    BY <1>14 DEF ServerError, Backed
  <2> QED
    BY <1>0, <1>14, <2>1, <2>2 DEF ServerError, Backed, FramesBacked
<1>15. CASE SessionDeadline \/ RunDeadline \/ Terminated \/ UNCHANGED vars
  <2>1. /\ down' = down /\ lmid' = lmid /\ view' = view /\ acked' = acked
        /\ reply' = reply /\ mutator' = mutator /\ conn' = conn /\ mid' = mid
        /\ phase' = phase
    BY <1>15 DEF SessionDeadline, RunDeadline, Terminated, vars
  <2> QED
    BY <1>1, <2>1 DEF Backed, FramesBacked
<1> QED
  BY <1>2, <1>3, <1>4, <1>5, <1>6, <1>7, <1>8, <1>9, <1>10, <1>11, <1>12, <1>13, <1>14, <1>15
     DEF Next, Mutator, Loop

-----------------------------------------------------------------------------
(* The counters of a run over the socket without push responses *)

InSession == phase \in {"live", "reap"}

Balanced ==
  /\ mutation_ok <= mutations_sent
  /\ lmid + mutation_ok <= mutations_sent + acked
  /\ \A i \in 1 .. Len(up) : up[i] + mutation_ok <= mutations_sent + acked
  /\ InSession =>
       /\ mid + mutation_ok <= mutations_sent + acked
       /\ mutations_sent + acked <= mutation_ok + mutation_abandoned + mid
  /\ ~InSession => mutations_sent <= mutation_ok + mutation_abandoned

LEMMA BalancedInit == Init => Balanced
  BY EmptySeq DEF Init, Balanced, InSession

(* Nothing is counted. *)
LEMMA BalancedUnmoved ==
  ASSUME Balanced, UNCHANGED <<up, lmid, acked, mid, phase>>,
         UNCHANGED <<mutations_sent, mutation_ok, mutation_abandoned>>
  PROVE  Balanced'
  BY DEF Balanced, InSession

(* Some pushes are lost, or the first is applied. *)
LEMMA BalancedSubset ==
  ASSUME TypeInv, Balanced, UNCHANGED <<acked, mid, phase>>,
         UNCHANGED <<mutations_sent, mutation_ok, mutation_abandoned>>,
         \A i \in 1 .. Len(up') : \E j \in 1 .. Len(up) : up'[i] = up[j],
         lmid' = lmid \/ \E j \in 1 .. Len(up) : lmid' = up[j]
  PROVE  Balanced'
  BY DEF Balanced, InSession

LEMMA BalancedStep ==
  ASSUME TypeInv, Backed, Contiguous, Balanced, [Next]_vars,
         Transport = "ws", ~PushResponses
  PROVE  Balanced'
<1> USE DEF clientVars, loopVars, taskVars, pokeVars, mutStats, clockVars, netVars, serverVars
<1>0. /\ acked \in Nat /\ lmid \in Nat /\ mid \in Nat /\ acked <= lmid
      /\ mutation_ok \in Nat /\ mutations_sent \in Nat /\ mutation_abandoned \in Nat
      /\ \A i \in 1 .. Len(up) : up[i] \in Nat
  BY Numbers DEF Backed
<1>1. CASE RecvPokeStart \/ RecvPokeEnd \/ RecvError \/ ReaderExit
  <2>1. /\ UNCHANGED <<up, lmid, acked, mid, phase>>
        /\ UNCHANGED <<mutations_sent, mutation_ok, mutation_abandoned>>
    BY <1>1 DEF RecvPokeStart, RecvPokeEnd, RecvError, ReaderExit, Receive
  <2> QED
    BY <2>1, BalancedUnmoved
<1>2. CASE RecvPushResponse
  <2>1. Head(down).tag = "pushResponse" /\ down # <<>>
    BY <1>2 DEF RecvPushResponse, Receive
  <2> QED
    BY <2>1, HeadDown DEF Backed, FrameBacked
<1>3. CASE RecvPokePart
  <2> DEFINE lm == Head(down).lm
  <2>1. lm \in Nat /\ lm <= lmid
    <3>1. Head(down).tag = "pokePart" /\ down # <<>>
      BY <1>3 DEF RecvPokePart, Receive
    <3> QED
      BY <3>1, HeadDown, FrameFields DEF Backed, FrameBacked
  <2>2. /\ UNCHANGED <<up, lmid, mid, phase, mutations_sent, mutation_abandoned>>
        /\ acked' = L!LargerOf(acked, lm) /\ mutation_ok' = mutation_ok + NewlyAcked(lm)
    BY <1>3 DEF RecvPokePart, Receive
  <2>3. CASE lm <= acked
    <3>1. acked' = acked /\ mutation_ok' = mutation_ok
      BY <1>0, <2>1, <2>2, <2>3 DEF L!LargerOf, NewlyAcked
    <3> QED
      BY <2>2, <3>1, BalancedUnmoved
  <2>4. CASE lm > acked
    <3>1. acked' = lm /\ mutation_ok' = mutation_ok + (lm - acked)
      BY <1>0, <2>1, <2>2, <2>4 DEF L!LargerOf, NewlyAcked
    <3>2. mutation_ok' <= mutations_sent'
      BY <1>0, <2>1, <2>2, <3>1 DEF Balanced
    <3>3. ASSUME NEW x \in Nat, x + mutation_ok <= mutations_sent + acked
          PROVE  x + mutation_ok' <= mutations_sent' + acked'
      BY <1>0, <2>1, <2>2, <3>1, <3>3
    <3>4. mutation_ok' - acked' = mutation_ok - acked /\ mutation_ok' >= mutation_ok
      BY <1>0, <2>1, <2>4, <3>1
    <3>5. acked' \in Nat /\ mutation_ok' \in Nat
      BY <1>0, <2>1, <2>4, <3>1
    <3>6. \A i \in 1 .. Len(up') : up'[i] + mutation_ok' <= mutations_sent' + acked'
      BY <1>0, <2>2, <3>3 DEF Balanced
    <3>7. lmid' + mutation_ok' <= mutations_sent' + acked'
      BY <1>0, <2>2, <3>3 DEF Balanced
    <3>8. /\ InSession' = InSession
          /\ InSession' => mid' + mutation_ok' <= mutations_sent' + acked'
      BY <1>0, <2>2, <3>3 DEF Balanced, InSession
    <3>9. /\ InSession' => mutations_sent' + acked' <= mutation_ok' + mutation_abandoned' + mid'
          /\ ~InSession' => mutations_sent' <= mutation_ok' + mutation_abandoned'
      BY <1>0, <2>2, <3>4, <3>5, <3>8 DEF Balanced
    <3> QED
      BY <3>2, <3>6, <3>7, <3>8, <3>9 DEF Balanced
  <2> QED
    BY <1>0, <2>1, <2>3, <2>4
<1>4. CASE MutatorExit \/ ChurnExit
  <2>1. /\ UNCHANGED <<up, lmid, acked, mid, phase>>
        /\ UNCHANGED <<mutations_sent, mutation_ok, mutation_abandoned>>
    BY <1>4 DEF MutatorExit, ChurnExit
  <2> QED
    BY <2>1, BalancedUnmoved
<1>5. CASE Push \/ PushFails
  <2>1. /\ UNCHANGED <<lmid, acked, phase, mutation_ok, mutation_abandoned>>
        /\ phase = "live" /\ mid' = mid + 1 /\ mutations_sent' = mutations_sent + 1
        /\ up' = up \/ up' = Append(up, mid + 1)
    BY <1>5 DEF Push, PushFails, NextMutation
  <2>2. \A i \in 1 .. Len(up') : (i \in 1 .. Len(up) /\ up'[i] = up[i]) \/ up'[i] = mid + 1
    <3>1. CASE up' = up
      BY <3>1
    <3>2. CASE up' = Append(up, mid + 1)
      BY <3>2, Numbers, AppendProperties
    <3> QED
      BY <2>1, <3>1, <3>2
  <2>3. mid + mutation_ok <= mutations_sent + acked
    BY <2>1 DEF Balanced, InSession
  <2>4. \A i \in 1 .. Len(up') : up'[i] + mutation_ok' <= mutations_sent' + acked'
    BY <1>0, <2>1, <2>2, <2>3 DEF Balanced
  <2> QED
    BY <1>0, <2>1, <2>3, <2>4 DEF Balanced, InSession
<1>6. CASE Post \/ PostAnswered \/ PostLost \/ ServerPost
  BY <1>6 DEF Post, PostAnswered, PostLost, ServerPost, Backed
<1>7. CASE Open \/ OpenThenSendFails \/ OpenFails
  <2>1. /\ UNCHANGED <<up, lmid, acked, mutations_sent, mutation_ok, mutation_abandoned>>
        /\ mid' = acked /\ ~InSession
    BY <1>7 DEF Open, OpenThenSendFails, OpenFails, Opened, NewSession, Rewind, InSession
  <2> QED
    BY <1>0, <2>1 DEF Balanced, InSession
<1>8. CASE Teardown
  <2>1. /\ UNCHANGED <<lmid, acked, mid, mutations_sent, mutation_ok, mutation_abandoned>>
        /\ InSession /\ InSession'
    BY <1>8 DEF Teardown, InSession
  <2>2. PICK n \in 0 .. Len(up) : up' = SubSeq(up, 1, n)
    BY <1>8, Numbers DEF Teardown
  <2>3. \A i \in 1 .. Len(up') : \E j \in 1 .. Len(up) : up'[i] = up[j]
    BY <2>2, Numbers, PrefixFacts
  <2> QED
    BY <1>0, <2>1, <2>3 DEF Balanced
<1>9. CASE Leave \/ Return \/ Retire
  <2>1. /\ UNCHANGED <<mutations_sent, mutation_ok>>
        /\ mutation_abandoned' = mutation_abandoned + Discarded
        /\ InSession /\ ~InSession'
    BY <1>9 DEF Leave, Return, Retire, Abandon, InSession
  <2>2. Discarded \in Nat /\ mid <= acked + Discarded
    BY <1>0 DEF Discarded, L!LargerOf
  <2>3. mutations_sent' <= mutation_ok' + mutation_abandoned' /\ mutation_ok' <= mutations_sent'
    BY <1>0, <2>1, <2>2 DEF Balanced
  <2>4. CASE Leave \/ Return
    <3>1. UNCHANGED <<up, lmid, acked>>
      BY <2>4 DEF Leave, Return
    <3> QED
      BY <1>0, <2>1, <2>3, <3>1 DEF Balanced
  <2>5. CASE Retire
    <3>1. up' = <<>> /\ lmid' = 0 /\ acked' = 0
      BY <2>5 DEF Retire, FreshAcked
    <3> QED
      BY <1>0, <2>1, <2>3, <3>1, EmptySeq DEF Balanced
  <2> QED
    BY <1>9, <2>4, <2>5
<1>10. CASE Finish \/ SessionDeadline \/ RunDeadline \/ ServerReplicate \/ ServerPoke
            \/ ServerError \/ Terminated \/ UNCHANGED vars
  <2>1. /\ UNCHANGED <<up, lmid, acked, mid>> /\ InSession' = InSession
        /\ UNCHANGED <<mutations_sent, mutation_ok, mutation_abandoned>>
    BY <1>10 DEF Finish, SessionDeadline, RunDeadline, ServerReplicate, ServerPoke, ServerError,
                 Terminated, vars, InSession
  <2> QED
    BY <2>1 DEF Balanced
<1>11. CASE Drop
  <2>1. /\ UNCHANGED <<lmid, acked, mid, phase>>
        /\ UNCHANGED <<mutations_sent, mutation_ok, mutation_abandoned>>
    BY <1>11 DEF Drop
  <2>2. PICK n \in 0 .. Len(up) : up' = SubSeq(up, 1, n)
    BY <1>11 DEF Drop
  <2>3. \A i \in 1 .. Len(up') : \E j \in 1 .. Len(up) : up'[i] = up[j]
    BY <2>2, Numbers, PrefixFacts
  <2> QED
    BY <2>1, <2>3, BalancedSubset
<1>12. CASE ServerApply
  <2>1. /\ UNCHANGED <<acked, mid, phase>> /\ up # <<>> /\ up' = Tail(up)
        /\ UNCHANGED <<mutations_sent, mutation_ok, mutation_abandoned>>
        /\ lmid' = lmid \/ lmid' = Head(up)
    BY <1>12 DEF ServerApply, Apply
  <2>2. /\ \A i \in 1 .. Len(up') : \E j \in 1 .. Len(up) : up'[i] = up[j]
        /\ Head(up) = up[1] /\ 1 \in 1 .. Len(up)
    BY <2>1, HeadUp
  <2> QED
    BY <2>1, <2>2, BalancedSubset
<1> QED
  BY <1>1, <1>2, <1>3, <1>4, <1>5, <1>6, <1>7, <1>8, <1>9, <1>10, <1>11, <1>12
     DEF Next, Reader, Mutator, Loop

-----------------------------------------------------------------------------
(* The order of the frames on the socket *)

(* What the reader has open when it comes to frame i. *)
OpenAt(i) == IF i = 1 THEN poke_open
             ELSE IF down[i - 1].tag \in {"pokeStart", "pokePart"} THEN down[i - 1].pid
             ELSE NoPoke

(* Pokes come one after another, each with its three frames; the last may   *)
(* be cut off only when the connection is gone.                             *)
Framed ==
  /\ \A i \in 1 .. Len(down) :
       /\ down[i].tag \in {"pokeStart", "error"} => OpenAt(i) = NoPoke
       /\ down[i].tag \in {"pokePart", "pokeEnd"} => OpenAt(i) = down[i].pid
       /\ down[i].tag \in {"pokeStart", "pokePart", "pokeEnd"} => down[i].pid # NoPoke
  /\ conn = "open" => OpenAt(Len(down) + 1) = NoPoke

(* The lmids on their way never fall, and none is behind acked. *)
Carries(i) == down[i].tag = "pokePart" /\ down[i].lm # 0

Rising ==
  /\ acked <= view
  /\ \A i \in 1 .. Len(down) : Carries(i) => acked <= down[i].lm /\ down[i].lm <= view
  /\ \A i, j \in 1 .. Len(down) : i < j /\ Carries(i) /\ Carries(j) => down[i].lm <= down[j].lm

(* The client will hold v as acknowledged when it comes to frame i. *)
Told(v, i) == v <= acked \/ \E j \in 1 .. i - 1 : Carries(j) /\ v <= down[j].lm

(* What a cookie, held or on its way, lets the server leave out of the      *)
(* catch-up is acknowledged before the cookie is taken.                     *)
Resumable ==
  /\ base_cookie # NoCookie => cvr[base_cookie] <= acked
  /\ \A i \in 1 .. Len(down) :
       down[i].tag = "pokeEnd" /\ ~down[i].cancel => Told(cvr[down[i].pid], i)
  /\ conn = "open" => Told(poked, Len(down) + 1)

Orderly == Framed /\ Rising /\ Resumable /\ invariants = {}

(* Nothing is on the wire. *)
LEMMA OrderlyEmpty ==
  ASSUME down' = <<>>, acked' <= view', invariants' = {},
         base_cookie' # NoCookie => cvr'[base_cookie'] <= acked',
         conn' = "open" => poke_open' = NoPoke /\ poked' <= acked'
  PROVE  Orderly'
<1>1. Len(down') = 0 /\ 1 .. Len(down') = {} /\ Len(down') + 1 = 1
  BY EmptySeq
<1>2. Framed'
  BY <1>1 DEF Framed, OpenAt
<1>3. Rising'
  BY <1>1 DEF Rising
<1>4. Resumable'
  BY <1>1 DEF Resumable, Told
<1> QED
  BY <1>2, <1>3, <1>4 DEF Orderly

LEMMA OrderlyInit == Init => Orderly
<1> SUFFICES ASSUME Init PROVE Orderly
  OBVIOUS
<1>1. Len(down) = 0 /\ 1 .. Len(down) = {} /\ conn # "open"
  BY EmptySeq DEF Init
<1>2. Framed
  BY <1>1 DEF Framed
<1>3. Rising
  BY <1>1 DEF Rising, Init
<1>4. Resumable
  BY <1>1 DEF Resumable, Init
<1> QED
  BY <1>2, <1>3, <1>4 DEF Orderly, Init

(* The server's view may move on. *)
LEMMA OrderlyUnmoved ==
  ASSUME TypeInv, Orderly, UNCHANGED <<down, conn, acked, invariants, poke_open, base_cookie>>,
         UNCHANGED <<cvr, poked>>, view' \in Nat, view <= view'
  PROVE  Orderly'
<1>1. Framed'
  BY DEF Orderly, Framed, OpenAt
<1>2. Rising'
  <2>1. acked' <= view'
    BY Numbers DEF Orderly, Rising
  <2>2. \A i \in 1 .. Len(down) : Carries(i) => down[i].lm <= view'
    <3> SUFFICES ASSUME NEW i \in 1 .. Len(down), Carries(i) PROVE down[i].lm <= view'
      OBVIOUS
    <3>1. down[i].lm \in Nat /\ down[i].lm <= view /\ view \in Nat
      BY Numbers, FrameFields DEF Orderly, Rising, Carries
    <3> QED
      BY <3>1
  <2> QED
    BY <2>1, <2>2 DEF Orderly, Rising, Carries
<1>3. Resumable'
  BY DEF Orderly, Resumable, Told, Carries
<1> QED
  BY <1>1, <1>2, <1>3 DEF Orderly

(* A drop loses the last frames. *)
LEMMA OrderlyCut ==
  ASSUME TypeInv, Orderly, UNCHANGED <<acked, invariants, poke_open, base_cookie, cvr, view>>,
         conn' # "open", NEW n \in 0 .. Len(down), down' = SubSeq(down, 1, n)
  PROVE  Orderly'
<1>1. Len(down') = n /\ \A i \in 1 .. n : down'[i] = down[i] /\ i \in 1 .. Len(down)
  BY Numbers, PrefixFacts
<1>2. \A i \in 1 .. n : \A j \in 1 .. i - 1 : j \in 1 .. n
  BY <1>1, Numbers
<1>3. \A i \in 1 .. n : OpenAt(i)' = OpenAt(i) /\ (Carries(i)' <=> Carries(i))
  <2> SUFFICES ASSUME NEW i \in 1 .. n PROVE OpenAt(i)' = OpenAt(i) /\ (Carries(i)' <=> Carries(i))
    OBVIOUS
  <2>1. i # 1 => i - 1 \in 1 .. i - 1
    BY <1>1, Numbers
  <2>2. i # 1 => down'[i - 1] = down[i - 1]
    BY <1>1, <1>2, <2>1
  <2> QED
    BY <1>1, <2>2 DEF OpenAt, Carries
<1>4. Framed'
  BY <1>1, <1>3 DEF Orderly, Framed
<1>5. Rising'
  BY <1>1, <1>3 DEF Orderly, Rising
<1>6. ASSUME NEW i \in 1 .. n, NEW v, Told(v, i)
      PROVE  Told(v, i)'
  BY <1>1, <1>2, <1>3, <1>6 DEF Told
<1>7. Resumable'
  BY <1>1, <1>6 DEF Orderly, Resumable
<1> QED
  BY <1>4, <1>5, <1>7 DEF Orderly

(* The reader takes the first frame. *)
LEMMA OrderlyTaken ==
  ASSUME TypeInv, Orderly, down # <<>>, down' = Tail(down),
         UNCHANGED <<conn, invariants, cvr, poked, view>>,
         poke_open' = OpenAt(2),
         acked' = IF Carries(1) THEN down[1].lm ELSE acked,
         \/ base_cookie' = base_cookie
         \/ base_cookie' = down[1].pid /\ down[1].tag = "pokeEnd" /\ ~down[1].cancel
  PROVE  Orderly'
<1>1. /\ Len(down') = Len(down) - 1 /\ Len(down) \in Nat /\ 1 \in 1 .. Len(down)
      /\ \A i \in 1 .. Len(down') : down'[i] = down[i + 1] /\ i + 1 \in 1 .. Len(down)
  BY HeadDown, Numbers
<1>2. \A i \in 1 .. Len(down') : Carries(i)' <=> Carries(i + 1)
  BY <1>1 DEF Carries
<1>3. \A i \in 1 .. Len(down') + 1 : OpenAt(i)' = OpenAt(i + 1)
  <2> SUFFICES ASSUME NEW i \in 1 .. Len(down') + 1 PROVE OpenAt(i)' = OpenAt(i + 1)
    OBVIOUS
  <2>1. i \in Nat /\ i + 1 # 1 /\ (i + 1) - 1 = i
    BY <1>1
  <2>2. CASE i = 1
    BY <2>2 DEF OpenAt
  <2>3. CASE i # 1
    <3>1. i - 1 \in 1 .. Len(down') /\ (i - 1) + 1 = i
      BY <1>1, <2>3
    <3>2. down'[i - 1] = down[i]
      BY <1>1, <3>1
    <3> QED
      BY <2>1, <2>3, <3>2 DEF OpenAt
  <2> QED
    BY <2>2, <2>3
<1>4. Framed'
  <2>1. \A i \in 1 .. Len(down') : i \in 1 .. Len(down') + 1
    BY <1>1
  <2>2. Len(down') + 1 \in 1 .. Len(down') + 1 /\ (Len(down') + 1) + 1 = Len(down) + 1
    BY <1>1
  <2>3. OpenAt(Len(down) + 1)' = OpenAt(Len(down) + 1)
    BY <1>3, <2>2
  <2>4. (conn = "open" => OpenAt(Len(down) + 1) = NoPoke)'
    BY <2>3 DEF Orderly, Framed
  <2>5. ASSUME NEW i \in 1 .. Len(down')
        PROVE  /\ down'[i].tag \in {"pokeStart", "error"} => OpenAt(i)' = NoPoke
               /\ down'[i].tag \in {"pokePart", "pokeEnd"} => OpenAt(i)' = down'[i].pid
               /\ down'[i].tag \in {"pokeStart", "pokePart", "pokeEnd"} => down'[i].pid # NoPoke
    <3>1. down'[i] = down[i + 1] /\ OpenAt(i)' = OpenAt(i + 1) /\ i + 1 \in 1 .. Len(down)
      BY <1>1, <1>3, <2>1
    <3> QED
      BY <3>1 DEF Orderly, Framed
  <2> QED
    BY <2>4, <2>5 DEF Framed
<1>5. /\ acked' \in Nat /\ acked \in Nat /\ acked <= acked' /\ acked' <= view
      /\ Carries(1) => down[1].lm = acked'
      /\ \A i \in 1 .. Len(down) : Carries(i) => down[i].lm \in Nat
  <2>1. \A i \in 1 .. Len(down) : Carries(i) => down[i].lm \in Nat
    BY Numbers, FrameFields DEF Carries
  <2> QED
    BY <1>1, <2>1, Numbers DEF Orderly, Rising
<1>6. Rising'
  <2>1. ASSUME NEW i \in 1 .. Len(down'), Carries(i)'
        PROVE  acked' <= down'[i].lm /\ down'[i].lm <= view'
    <3>1. i + 1 \in 1 .. Len(down) /\ 1 < i + 1 /\ Carries(i + 1) /\ down'[i] = down[i + 1]
      BY <1>1, <1>2, <2>1
    <3>2. acked <= down[i + 1].lm /\ down[i + 1].lm <= view
      BY <3>1 DEF Orderly, Rising
    <3>3. Carries(1) => down[1].lm <= down[i + 1].lm
      BY <1>1, <3>1 DEF Orderly, Rising
    <3> QED
      BY <3>1, <3>2, <3>3
  <2>2. ASSUME NEW i \in 1 .. Len(down'), NEW j \in 1 .. Len(down'), i < j, Carries(i)', Carries(j)'
        PROVE  down'[i].lm <= down'[j].lm
    <3>1. /\ i + 1 \in 1 .. Len(down) /\ j + 1 \in 1 .. Len(down) /\ i + 1 < j + 1
          /\ Carries(i + 1) /\ Carries(j + 1) /\ down'[i] = down[i + 1] /\ down'[j] = down[j + 1]
      BY <1>1, <1>2, <2>2
    <3> QED
      BY <3>1 DEF Orderly, Rising
  <2> QED
    BY <1>5, <2>1, <2>2 DEF Rising
<1>7. ASSUME NEW i \in 1 .. Len(down') + 1, NEW v \in Nat, Told(v, i + 1)
      PROVE  Told(v, i)'
  <2>1. CASE v <= acked
    BY <1>5, <2>1 DEF Told
  <2>2. CASE \E j \in 1 .. (i + 1) - 1 : Carries(j) /\ v <= down[j].lm
    <3>1. PICK j \in 1 .. i : Carries(j) /\ v <= down[j].lm
      BY <2>2
    <3>2. CASE j = 1
      BY <1>5, <3>1, <3>2 DEF Told
    <3>3. CASE j # 1
      <4>1. j - 1 \in 1 .. i - 1 /\ j - 1 \in 1 .. Len(down') /\ (j - 1) + 1 = j
        BY <1>1, <3>1, <3>3
      <4>2. Carries(j - 1)' /\ down'[j - 1] = down[j]
        BY <1>1, <1>2, <3>1, <4>1
      <4> QED
        BY <3>1, <4>1, <4>2 DEF Told
    <3> QED
      BY <3>2, <3>3
  <2> QED
    BY <1>7, <2>1, <2>2 DEF Told
<1>8. Resumable'
  <2>0. \A k \in 1 .. Len(cvr) : cvr[k] \in Nat
    BY ElementOfSeq DEF TypeInv, TypeOK
  <2>1. \A i \in 1 .. Len(down) : down[i].tag = "pokeEnd" /\ ~down[i].cancel =>
           down[i].pid \in 1 .. Len(cvr) /\ Told(cvr[down[i].pid], i)
    BY DEF TypeInv, CookiesCommitted, Orderly, Resumable
  <2>2. base_cookie' # NoCookie => cvr'[base_cookie'] <= acked'
    <3>1. CASE base_cookie' = base_cookie
      <4>1. base_cookie # NoCookie => base_cookie \in 1 .. Len(cvr)
        BY LenProperties DEF TypeInv, TypeOK, NoCookie
      <4> QED
        BY <1>5, <2>0, <3>1, <4>1 DEF Orderly, Resumable
    <3>2. CASE base_cookie' = down[1].pid /\ down[1].tag = "pokeEnd" /\ ~down[1].cancel
      <4>1. cvr[down[1].pid] \in Nat /\ Told(cvr[down[1].pid], 1)
        BY <1>1, <2>0, <2>1, <3>2
      <4>2. 1 .. 1 - 1 = {}
        OBVIOUS
      <4> QED
        BY <1>5, <3>2, <4>1, <4>2 DEF Told
    <3> QED
      BY <3>1, <3>2
  <2>3. ASSUME NEW i \in 1 .. Len(down'), down'[i].tag = "pokeEnd", ~down'[i].cancel
        PROVE  Told(cvr[down[i].pid], i)'
    <3>1. /\ i + 1 \in 1 .. Len(down) /\ down'[i] = down[i + 1] /\ i \in 1 .. Len(down') + 1
      BY <1>1
    <3>2. cvr[down[i + 1].pid] \in Nat /\ Told(cvr[down[i + 1].pid], i + 1)
      BY <2>0, <2>1, <2>3, <3>1
    <3> QED
      BY <1>7, <3>1, <3>2
  <2>4. (conn = "open" => Told(poked, Len(down) + 1))'
    <3>1. poked \in Nat /\ Len(down') + 1 \in 1 .. Len(down') + 1 /\ (Len(down') + 1) + 1 = Len(down) + 1
      BY <1>1 DEF TypeInv, TypeOK
    <3> QED
      BY <1>7, <3>1 DEF Orderly, Resumable
  <2> QED
    BY <2>2, <2>3, <2>4 DEF Resumable
<1> QED
  BY <1>4, <1>6, <1>8 DEF Orderly

(* What is on the wire already is as it was when frames follow it. *)
LEMMA OrderlyBefore ==
  ASSUME TypeInv, Len(down') \in Nat, Len(down') >= Len(down),
         \A i \in 1 .. Len(down) : down'[i] = down[i],
         UNCHANGED <<acked, poke_open>>
  PROVE  /\ \A i \in 1 .. Len(down) + 1 : OpenAt(i)' = OpenAt(i)
         /\ \A i \in 1 .. Len(down) : Carries(i)' <=> Carries(i)
         /\ \A i \in 1 .. Len(down) + 1 : \A v : Told(v, i) => Told(v, i)'
<1>1. \A i \in 1 .. Len(down) + 1 : i \in Nat /\ \A j \in 1 .. i - 1 : j \in 1 .. Len(down)
  BY Numbers
<1>2. \A i \in 1 .. Len(down) : Carries(i)' <=> Carries(i)
  BY DEF Carries
<1>3. ASSUME NEW i \in 1 .. Len(down) + 1
      PROVE  OpenAt(i)' = OpenAt(i)
  <2>1. i # 1 => i - 1 \in 1 .. i - 1
    BY <1>1
  <2>2. i # 1 => down'[i - 1] = down[i - 1]
    BY <1>1, <2>1
  <2> QED
    BY <2>2 DEF OpenAt
<1>4. ASSUME NEW i \in 1 .. Len(down) + 1, NEW v, Told(v, i)
      PROVE  Told(v, i)'
  BY <1>1, <1>2, <1>4 DEF Told
<1> QED
  BY <1>2, <1>3, <1>4

LEMMA OrderlyError ==
  ASSUME TypeInv, Orderly, ServerError
  PROVE  Orderly'
<1>1. /\ UNCHANGED <<acked, invariants, poke_open, base_cookie, cvr, view, poked, conn>>
      /\ conn = "open" /\ down' = Append(down, [tag |-> "error"])
  BY DEF ServerError, clientVars, pokeVars, serverVars
<1>2. /\ Len(down') = Len(down) + 1 /\ Len(down) \in Nat
      /\ \A i \in 1 .. Len(down) : down'[i] = down[i]
      /\ down'[Len(down) + 1].tag = "error"
  BY <1>1, Numbers, FrameKinds, AppendProperties
<1>3. /\ \A i \in 1 .. Len(down) + 1 : OpenAt(i)' = OpenAt(i)
      /\ \A i \in 1 .. Len(down) : Carries(i)' <=> Carries(i)
      /\ \A i \in 1 .. Len(down) + 1 : \A v : Told(v, i) => Told(v, i)'
  BY <1>1, <1>2, OrderlyBefore
<1>4. \A i \in 1 .. Len(down') : i \in 1 .. Len(down) \/ i = Len(down) + 1
  BY <1>2
<1>5. \A i \in 1 .. Len(down) : i \in 1 .. Len(down) + 1
  BY <1>2
<1>6. Len(down) + 1 \in 1 .. Len(down) + 1
  BY <1>2
<1>7. Framed'
  <2>1. ASSUME NEW i \in 1 .. Len(down')
        PROVE  /\ down'[i].tag \in {"pokeStart", "error"} => OpenAt(i)' = NoPoke
               /\ down'[i].tag \in {"pokePart", "pokeEnd"} => OpenAt(i)' = down'[i].pid
               /\ down'[i].tag \in {"pokeStart", "pokePart", "pokeEnd"} => down'[i].pid # NoPoke
    <3>1. CASE i \in 1 .. Len(down)
      BY <1>2, <1>3, <1>5, <3>1 DEF Orderly, Framed
    <3>2. CASE i = Len(down) + 1
      BY <1>1, <1>2, <1>3, <1>6, <3>2 DEF Orderly, Framed
    <3> QED
      BY <1>4, <3>1, <3>2
  <2>2. OpenAt(Len(down) + 1)' = NoPoke
    <3>1. Len(down') + 1 # 1 /\ (Len(down') + 1) - 1 = Len(down) + 1
      BY <1>2
    <3> QED
      BY <1>2, <3>1 DEF OpenAt
  <2> QED
    BY <2>1, <2>2 DEF Framed
<1>8. Rising'
  <2>1. \A i \in 1 .. Len(down') : Carries(i)' => i \in 1 .. Len(down) /\ Carries(i)
    BY <1>2, <1>3, <1>4 DEF Carries
  <2> QED
    BY <1>1, <1>2, <2>1 DEF Orderly, Rising
<1>9. Resumable'
  <2>1. ASSUME NEW i \in 1 .. Len(down'), down'[i].tag = "pokeEnd", ~down'[i].cancel
        PROVE  Told(cvr[down[i].pid], i)'
    <3>1. i \in 1 .. Len(down) /\ down'[i] = down[i]
      BY <1>2, <1>4, <2>1
    <3>2. Told(cvr[down[i].pid], i)
      BY <2>1, <3>1 DEF Orderly, Resumable
    <3> QED
      BY <1>1, <1>3, <1>5, <3>1, <3>2
  <2>2. Told(poked, Len(down) + 1)'
    <3>1. Told(poked, Len(down) + 1)
      BY <1>1 DEF Orderly, Resumable
    <3>2. CASE poked <= acked
      BY <1>1, <3>2 DEF Told
    <3>3. CASE \E j \in 1 .. (Len(down) + 1) - 1 : Carries(j) /\ poked <= down[j].lm
      <4>1. PICK j \in 1 .. Len(down) : Carries(j) /\ poked <= down[j].lm
        BY <1>2, <3>3
      <4>2. Carries(j)' /\ poked' <= down'[j].lm /\ j \in 1 .. (Len(down') + 1) - 1
        BY <1>1, <1>2, <1>3, <4>1
      <4> QED
        BY <4>2 DEF Told
    <3> QED
      BY <3>1, <3>2, <3>3 DEF Told
  <2> QED
    BY <1>1, <2>1, <2>2 DEF Orderly, Resumable
<1> QED
  BY <1>1, <1>7, <1>8, <1>9 DEF Orderly

(* A poke carries the lmid if it moved since the last one; the version it   *)
(* commits, if it does, records what the client will have been told.        *)
LEMMA OrderlyPoke ==
  ASSUME TypeInv, Orderly, ServerPoke
  PROVE  Orderly'
<1> DEFINE n == Len(down)
           pid == Len(cvr) + 1
           lm == IF view > poked THEN view ELSE 0
           start == [tag |-> "pokeStart", pid |-> pid]
           part == [tag |-> "pokePart", pid |-> pid, lm |-> lm]
           end(cancel) == [tag |-> "pokeEnd", pid |-> pid, cancel |-> cancel]
<1>1. PICK cancel \in BOOLEAN :
        /\ down' = down \o <<start, part, end(cancel)>>
        /\ cvr' = IF cancel THEN cvr ELSE Append(cvr, view)
        /\ poked' = IF cancel THEN poked ELSE view
  BY DEF ServerPoke
<1>2. /\ UNCHANGED <<acked, invariants, poke_open, base_cookie, view, conn>> /\ conn = "open"
  BY DEF ServerPoke, clientVars, pokeVars
<1>3. /\ n \in Nat /\ pid \in Nat /\ pid # NoPoke /\ lm \in Nat /\ lm <= view
      /\ view \in Nat /\ poked \in Nat /\ acked \in Nat /\ acked <= view
      /\ cvr \in Seq(Nat) /\ Len(cvr) \in Nat
  BY Numbers, LenProperties DEF TypeInv, TypeOK, NoPoke, Orderly, Rising
<1>4. start \in Frames /\ part \in Frames /\ end(cancel) \in Frames
  BY <1>3, FrameKinds
<1>5. /\ Len(down') = n + 3
      /\ \A i \in 1 .. n : down'[i] = down[i]
      /\ down'[n + 1] = start /\ down'[n + 2] = part /\ down'[n + 3] = end(cancel)
  <2> HIDE DEF start, part, end
  <2> QED
    BY <1>1, <1>4, Numbers, ThreeMore
<1>6. /\ down'[n + 1].tag = "pokeStart" /\ down'[n + 1].pid = pid
      /\ down'[n + 2].tag = "pokePart" /\ down'[n + 2].pid = pid /\ down'[n + 2].lm = lm
      /\ down'[n + 3].tag = "pokeEnd" /\ down'[n + 3].pid = pid /\ down'[n + 3].cancel = cancel
  BY <1>5
<1> HIDE DEF start, part, end, lm
<1>7. /\ \A i \in 1 .. n + 1 : OpenAt(i)' = OpenAt(i)
      /\ \A i \in 1 .. n : Carries(i)' <=> Carries(i)
      /\ \A i \in 1 .. n + 1 : \A v : Told(v, i) => Told(v, i)'
  <2>1. Len(down') \in Nat /\ Len(down') >= Len(down)
    BY <1>3, <1>5
  <2> QED
    BY <1>2, <1>5, <2>1, OrderlyBefore
<1>8. \A i \in 1 .. Len(down') : i \in 1 .. n \/ i = n + 1 \/ i = n + 2 \/ i = n + 3
  BY <1>3, <1>5
<1>9. \A i \in 1 .. n : i \in 1 .. n + 1
  BY <1>3
<1>10. /\ n + 1 \in 1 .. n + 1 /\ n + 2 # 1 /\ n + 3 # 1 /\ n + 4 # 1
       /\ (n + 2) - 1 = n + 1 /\ (n + 3) - 1 = n + 2 /\ (n + 4) - 1 = n + 3
       /\ Len(down') + 1 = n + 4
  BY <1>3, <1>5
<1>11. Framed'
  <2>1. /\ OpenAt(n + 1) = NoPoke
        /\ \A i \in 1 .. n : OpenAt(i)' = OpenAt(i)
    BY <1>2, <1>7, <1>9 DEF Orderly, Framed
  <2>2. ASSUME NEW i \in 1 .. Len(down')
        PROVE  /\ down'[i].tag \in {"pokeStart", "error"} => OpenAt(i)' = NoPoke
               /\ down'[i].tag \in {"pokePart", "pokeEnd"} => OpenAt(i)' = down'[i].pid
               /\ down'[i].tag \in {"pokeStart", "pokePart", "pokeEnd"} => down'[i].pid # NoPoke
    <3>1. CASE i \in 1 .. n
      BY <1>5, <2>1, <3>1 DEF Orderly, Framed
    <3>2. CASE i = n + 1
      BY <1>3, <1>6, <1>7, <1>10, <2>1, <3>2
    <3>3. CASE i = n + 2
      BY <1>3, <1>6, <1>10, <3>3 DEF OpenAt
    <3>4. CASE i = n + 3
      BY <1>3, <1>6, <1>10, <3>4 DEF OpenAt
    <3> QED
      BY <1>8, <3>1, <3>2, <3>3, <3>4
  <2>3. OpenAt(Len(down) + 1)' = NoPoke
    BY <1>6, <1>10 DEF OpenAt
  <2> QED
    BY <2>2, <2>3 DEF Framed
<1>12. \A i \in 1 .. Len(down') : Carries(i)' =>
          \/ i \in 1 .. n /\ Carries(i) /\ down'[i] = down[i]
          \/ i = n + 2 /\ down'[i].lm = view
  <2> SUFFICES ASSUME NEW i \in 1 .. Len(down'), Carries(i)'
               PROVE  \/ i \in 1 .. n /\ Carries(i) /\ down'[i] = down[i]
                      \/ i = n + 2 /\ down'[i].lm = view
    OBVIOUS
  <2>1. CASE i \in 1 .. n
    BY <1>5, <1>7, <2>1
  <2>2. CASE i = n + 2
    BY <1>6, <2>2 DEF Carries, lm
  <2>3. CASE i = n + 1 \/ i = n + 3
    BY <1>6, <2>3 DEF Carries
  <2> QED
    BY <1>8, <2>1, <2>2, <2>3
<1>13. Rising'
  <2>1. ASSUME NEW i \in 1 .. Len(down'), Carries(i)'
        PROVE  acked' <= down'[i].lm /\ down'[i].lm <= view'
    BY <1>2, <1>3, <1>12, <2>1 DEF Orderly, Rising
  <2>2. ASSUME NEW i \in 1 .. Len(down'), NEW j \in 1 .. Len(down'), i < j, Carries(i)', Carries(j)'
        PROVE  down'[i].lm <= down'[j].lm
    <3>1. CASE j = n + 2 /\ down'[j].lm = view
      BY <1>2, <2>1, <2>2, <3>1
    <3>2. CASE j \in 1 .. n /\ Carries(j) /\ down'[j] = down[j]
      <4>1. i \in 1 .. n /\ Carries(i) /\ down'[i] = down[i]
        BY <1>3, <1>12, <2>2, <3>2
      <4> QED
        BY <2>2, <3>2, <4>1 DEF Orderly, Rising
    <3> QED
      BY <1>12, <2>2, <3>1, <3>2
  <2> QED
    BY <1>2, <1>3, <2>1, <2>2 DEF Rising
<1>14. ASSUME NEW v \in Nat, v <= poked \/ v <= view, NEW i \in {n + 3, n + 4}
       PROVE  Told(v, i)'
  <2>0. Told(poked, n + 1)
    BY <1>2 DEF Orderly, Resumable
  <2>1. CASE view > poked
    <3>1. PICK j \in 1 .. i - 1 : j = n + 2
      BY <1>3, <1>14
    <3>2. lm = view /\ view # 0
      BY <1>3, <2>1 DEF lm
    <3>3. Carries(j)' /\ down'[j].lm = view
      BY <1>6, <3>1, <3>2 DEF Carries
    <3> QED
      BY <1>3, <1>14, <2>1, <3>3 DEF Told
  <2>2. CASE view <= poked
    <3>1. CASE poked <= acked
      BY <1>2, <1>3, <1>14, <2>2, <3>1 DEF Told
    <3>2. CASE \E j \in 1 .. (n + 1) - 1 : Carries(j) /\ poked <= down[j].lm
      <4>1. PICK j \in 1 .. n : Carries(j) /\ poked <= down[j].lm
        BY <1>3, <3>2
      <4>2. Carries(j)' /\ down'[j].lm = down[j].lm /\ j \in 1 .. i - 1 /\ down[j].lm \in Nat
        BY <1>3, <1>5, <1>7, <1>14, <4>1, Numbers, FrameFields DEF Carries
      <4> QED
        BY <1>3, <1>14, <2>2, <4>1, <4>2 DEF Told
    <3> QED
      BY <2>0, <3>1, <3>2 DEF Told
  <2> QED
    BY <1>3, <2>1, <2>2
<1>15. /\ \A v \in 1 .. Len(cvr) : cvr'[v] = cvr[v]
       /\ ~cancel => cvr'[pid] = view
  BY <1>1, <1>3, AppendProperties
<1>16. Resumable'
  <2>1. base_cookie' # NoCookie => cvr'[base_cookie'] <= acked'
    <3>1. base_cookie # NoCookie => base_cookie \in 1 .. Len(cvr)
      BY <1>3 DEF TypeInv, TypeOK, NoCookie
    <3> QED
      BY <1>2, <1>15, <3>1 DEF Orderly, Resumable
  <2>2. ASSUME NEW i \in 1 .. Len(down'), down'[i].tag = "pokeEnd", ~down'[i].cancel
        PROVE  Told(cvr[down[i].pid], i)'
    <3>1. CASE i \in 1 .. n
      <4>1. down'[i] = down[i] /\ down[i].pid \in 1 .. Len(cvr) /\ Told(cvr[down[i].pid], i)
        BY <1>5, <2>2, <3>1 DEF Orderly, Resumable, TypeInv, CookiesCommitted
      <4>2. cvr'[down'[i].pid] = cvr[down[i].pid]
        BY <1>15, <4>1
      <4> QED
        BY <1>7, <1>9, <3>1, <4>1, <4>2
    <3>2. CASE i = n + 3
      <4>1. cvr'[down'[i].pid] = view
        BY <1>6, <1>15, <2>2, <3>2
      <4> QED
        BY <1>3, <1>14, <3>2, <4>1
    <3> QED
      BY <1>6, <1>8, <2>2, <3>1, <3>2
  <2>3. Told(poked, Len(down) + 1)'
    <3>1. poked' \in Nat /\ (poked' <= poked \/ poked' <= view) /\ n + 4 \in {n + 3, n + 4}
      BY <1>1, <1>3
    <3> QED
      BY <1>10, <1>14, <3>1
  <2> QED
    BY <2>1, <2>2, <2>3 DEF Resumable
<1> QED
  BY <1>2, <1>11, <1>13, <1>16 DEF Orderly

LEMMA OrderlyReader ==
  ASSUME TypeInv, Backed, Orderly, Reader, ~PushResponses
  PROVE  Orderly'
<1> USE DEF loopVars, taskVars, pokeVars, mutStats, clockVars, netVars, serverVars
<1>1. CASE ReaderExit
  BY <1>1, OrderlyUnmoved, Numbers DEF ReaderExit
<1>2. ASSUME NEW tag, Receive(tag)
      PROVE  /\ down # <<>> /\ down' = Tail(down) /\ Head(down) = down[1] /\ down[1] \in Frames
             /\ 1 \in 1 .. Len(down) /\ down[1].tag = tag
             /\ UNCHANGED <<conn, cvr, poked, view>> /\ OpenAt(1) = poke_open
             /\ OpenAt(2) = IF tag \in {"pokeStart", "pokePart"} THEN down[1].pid ELSE NoPoke
  <2>1. (2 = 1) = FALSE /\ 2 - 1 = 1
    OBVIOUS
  <2> QED
    BY <1>2, <2>1, HeadDown DEF Receive, OpenAt
<1>3. CASE RecvPokeStart
  <2>0. down[1].tag = "pokeStart" /\ poke_open' = Head(down).pid
    BY <1>2, <1>3 DEF RecvPokeStart
  <2>1. /\ down # <<>> /\ down' = Tail(down) /\ UNCHANGED <<conn, cvr, poked, view, acked, base_cookie>>
        /\ poke_open' = OpenAt(2)
    BY <1>2, <1>3, <2>0 DEF RecvPokeStart
  <2>4. ~Carries(1)
    BY <2>0 DEF Carries
  <2>2. poke_open = NoPoke
    BY <1>2, <1>3 DEF RecvPokeStart, Orderly, Framed
  <2>3. invariants' = invariants
    BY <1>3, <2>2 DEF RecvPokeStart, Raise
  <2> QED
    BY <2>1, <2>3, <2>4, OrderlyTaken
<1>4. CASE RecvPokePart
  <2>1. /\ down # <<>> /\ down' = Tail(down) /\ UNCHANGED <<conn, cvr, poked, view, base_cookie>>
        /\ poke_open' = poke_open /\ Head(down) = down[1] /\ 1 \in 1 .. Len(down)
        /\ down[1] \in Frames /\ down[1].tag = "pokePart" /\ OpenAt(2) = down[1].pid
    BY <1>2, <1>4 DEF RecvPokePart
  <2>2. poke_open = down[1].pid /\ poke_open # NoPoke
    BY <1>2, <1>4, <2>1 DEF RecvPokePart, Orderly, Framed
  <2>3. /\ down[1].lm \in Nat /\ acked \in Nat /\ (Carries(1) <=> down[1].lm # 0)
        /\ down[1].lm # 0 => acked <= down[1].lm
    BY <2>1, Numbers, FrameFields DEF Carries, Orderly, Rising
  <2>4. acked' = IF Carries(1) THEN down[1].lm ELSE acked
    <3>1. acked' = L!LargerOf(acked, down[1].lm)
      BY <1>4, <2>1 DEF RecvPokePart
    <3> QED
      BY <2>3, <3>1 DEF L!LargerOf
  <2>5. invariants' = invariants
    <3>1. ~(down[1].lm # 0 /\ down[1].lm < acked)
      BY <2>3
    <3> QED
      BY <1>4, <2>1, <2>2, <3>1 DEF RecvPokePart, Raise
  <2> QED
    BY <2>1, <2>2, <2>4, <2>5, OrderlyTaken
<1>5. CASE RecvPokeEnd
  <2>1. /\ down # <<>> /\ down' = Tail(down) /\ UNCHANGED <<conn, cvr, poked, view, acked>>
        /\ OpenAt(2) = NoPoke /\ Head(down) = down[1] /\ 1 \in 1 .. Len(down)
        /\ down[1].tag = "pokeEnd"
    <3>1. Receive("pokeEnd") /\ acked' = acked
      BY <1>5 DEF RecvPokeEnd
    <3>2. /\ down # <<>> /\ down' = Tail(down) /\ Head(down) = down[1]
          /\ 1 \in 1 .. Len(down) /\ down[1].tag = "pokeEnd"
          /\ UNCHANGED <<conn, cvr, poked, view>>
      BY <1>2, <3>1
    <3>3. OpenAt(2) = NoPoke
      BY <1>2, <3>1
    <3> QED
      BY <3>1, <3>2, <3>3
  <2>6. poke_open' = NoPoke
    BY <1>5 DEF RecvPokeEnd
  <2>5. ~Carries(1)
    BY <2>1 DEF Carries
  <2>2. poke_open = down[1].pid /\ poke_open # NoPoke
    BY <1>2, <1>5, <2>1 DEF RecvPokeEnd, Orderly, Framed
  <2>3. invariants' = invariants
    BY <1>5, <2>1, <2>2 DEF RecvPokeEnd, Raise
  <2>4. base_cookie' = base_cookie \/ (base_cookie' = down[1].pid /\ ~down[1].cancel)
    BY <1>5, <2>1 DEF RecvPokeEnd, NextCookie
  <2> QED
    BY <2>1, <2>3, <2>4, <2>5, <2>6, OrderlyTaken
<1>6. CASE RecvPushResponse
  <2>1. 1 \in 1 .. Len(down) /\ down[1].tag = "pushResponse"
    BY <1>2, <1>6 DEF RecvPushResponse
  <2> QED
    BY <2>1 DEF Backed, FrameBacked
<1>7. CASE RecvError
  <2>1. /\ down # <<>> /\ down' = Tail(down) /\ 1 \in 1 .. Len(down) /\ down[1].tag = "error"
        /\ UNCHANGED <<conn, cvr, poked, view, acked, base_cookie, poke_open, invariants>>
        /\ OpenAt(1) = poke_open /\ OpenAt(2) = NoPoke /\ ~Carries(1)
    BY <1>2, <1>7 DEF RecvError, Carries
  <2>2. poke_open = NoPoke
    BY <2>1 DEF Orderly, Framed
  <2> QED
    BY <2>1, <2>2, OrderlyTaken
<1> QED
  BY <1>1, <1>3, <1>4, <1>5, <1>6, <1>7 DEF Reader

LEMMA OrderlyStep ==
  ASSUME TypeInv, Backed, Orderly, [Next]_vars, Transport = "ws", ~PushResponses
  PROVE  Orderly'
<1> USE DEF clientVars, loopVars, taskVars, pokeVars, mutStats, clockVars, netVars, serverVars
<1>0. /\ acked \in Nat /\ view \in Nat /\ acked <= view /\ invariants = {}
      /\ base_cookie # NoCookie => /\ cvr[base_cookie] <= acked
                                   /\ base_cookie \in 1 .. Len(cvr)
  BY Numbers, LenProperties DEF Orderly, Rising, Resumable, TypeInv, TypeOK, NoCookie
<1>1. CASE Reader
  BY <1>1, OrderlyReader
<1>2. CASE Mutator \/ ChurnExit \/ SessionDeadline \/ RunDeadline \/ Terminated \/ UNCHANGED vars
  <2>1. /\ UNCHANGED <<down, conn, acked, invariants, poke_open, base_cookie>>
        /\ UNCHANGED <<cvr, poked, view>>
    BY <1>2 DEF Mutator, MutatorExit, Push, PushFails, Post, PostAnswered, PostLost, NextMutation,
                Backed, ChurnExit, SessionDeadline, RunDeadline, Terminated, vars
  <2> QED
    BY <1>0, <2>1, OrderlyUnmoved
<1>3. CASE ServerPost \/ ServerApply
  <2>1. /\ UNCHANGED <<down, conn, acked, invariants, poke_open, base_cookie>>
        /\ UNCHANGED <<cvr, poked, view>>
    BY <1>3 DEF ServerPost, ServerApply, Backed
  <2> QED
    BY <1>0, <2>1, OrderlyUnmoved
<1>4. CASE ServerReplicate
  <2>1. view' \in Nat /\ view <= view'
    BY <1>0, <1>4, Numbers DEF ServerReplicate
  <2> QED
    BY <1>4, <2>1, OrderlyUnmoved DEF ServerReplicate
<1>5. CASE ServerPoke
  BY <1>5, OrderlyPoke
<1>6. CASE ServerError
  BY <1>6, OrderlyError
<1>7. CASE Drop
  <2>1. PICK n \in 0 .. Len(down) : down' = SubSeq(down, 1, n)
    BY <1>7 DEF Drop
  <2>2. /\ UNCHANGED <<acked, invariants, poke_open, base_cookie, cvr, view>> /\ conn' # "open"
    BY <1>7 DEF Drop
  <2> QED
    BY <2>1, <2>2, OrderlyCut
<1>8. CASE Open
  <2>1. /\ down' = <<>> /\ UNCHANGED <<acked, view, invariants, base_cookie, cvr>>
        /\ poke_open' = NoPoke
        /\ (base_cookie # NoCookie /\ poked' = cvr[base_cookie]) \/ poked' = 0
    BY <1>8 DEF Open, Opened, NewSession, FreshPoke
  <2> QED
    BY <1>0, <2>1, OrderlyEmpty
<1>9. CASE OpenThenSendFails \/ OpenFails \/ Leave \/ Return \/ Finish
  <2>1. phase # "live" /\ UNCHANGED <<down, conn, acked, view, invariants, base_cookie, cvr>>
    BY <1>9 DEF OpenThenSendFails, OpenFails, Leave, Return, Finish, Opened, NewSession, Abandon
  <2>2. down' = <<>> /\ conn' # "open"
    BY <2>1 DEF Backed
  <2> QED
    BY <1>0, <2>1, <2>2, OrderlyEmpty
<1>10. CASE Teardown
  <2>1. down' = <<>> /\ conn' = "none" /\ UNCHANGED <<acked, view, invariants, base_cookie, cvr>>
    BY <1>10 DEF Teardown
  <2> QED
    BY <1>0, <2>1, OrderlyEmpty
<1>11. CASE Retire
  <2>1. /\ down' = <<>> /\ conn' # "open" /\ acked' = 0 /\ view' = 0
        /\ UNCHANGED <<invariants, base_cookie>>
        /\ cvr' = [v \in 1 .. Len(cvr) |-> 0]
    BY <1>11 DEF Retire, Abandon, FreshAcked, Backed
  <2> QED
    BY <1>0, <2>1, OrderlyEmpty
<1> QED
  BY <1>1, <1>2, <1>3, <1>4, <1>5, <1>6, <1>7, <1>8, <1>9, <1>10, <1>11 DEF Next, Loop

-----------------------------------------------------------------------------
(* The theorems *)

Safe == /\ TypeInv /\ Backed /\ Contiguous
        /\ Transport = "ws" /\ ~PushResponses => Balanced /\ Orderly

LEMMA SafeInductive == (Init => Safe) /\ (Safe /\ [Next]_vars => Safe')
  BY TypeInit, BackedInit, ContiguousInit, BalancedInit, OrderlyInit,
     TypeStep, BackedStep, ContiguousStep, BalancedStep, OrderlyStep DEF Safe

(* Every part of the strengthening holds in every reachable state.          *)
THEOREM SafeInvariant == Spec => []Safe
  BY SafeInductive, PTL DEF Spec

(* The lmid a client presents when it reconnects, and from which it         *)
(* restarts its ids, never exceeds what the server has recorded.            *)
THEOREM ClaimIsBacked == Spec => []ClaimBacked
<1>1. Safe => ClaimBacked
  BY DEF Safe, Backed, ClaimBacked
<1> QED
  BY <1>1, SafeInvariant, PTL

(* With mutations on the socket, rewinding mid to acked at every session    *)
(* start never leaves a gap: no push is answered oooMutation.               *)
THEOREM SocketLeavesNoGap ==
  ASSUME Transport = "ws"
  PROVE  Spec => []NoGap
<1>1. Safe => NoGap
  BY DEF Safe, Contiguous, NoGap
<1> QED
  BY <1>1, SafeInvariant, PTL

(* With the lmid as the only acknowledgement, none is counted twice: the    *)
(* outcome ratio of gate G4 cannot exceed one.                              *)
THEOREM AcksAreWithinSends ==
  ASSUME Transport = "ws", ~PushResponses
  PROVE  Spec => []AcksWithinSends
<1>1. Safe => AcksWithinSends
  BY DEF Safe, Balanced, AcksWithinSends
<1> QED
  BY <1>1, SafeInvariant, PTL

(* Between sessions every attempt has been acknowledged or written off.     *)
THEOREM SettledWhenAway ==
  ASSUME Transport = "ws", ~PushResponses
  PROVE  Spec => []SettledBetweenSessions
<1>1. Safe => SettledBetweenSessions
  BY DEF Safe, Balanced, InSession, SettledBetweenSessions
<1> QED
  BY <1>1, SafeInvariant, PTL

(* Whatever is dropped, cut off or cancelled, the assertions of the reader  *)
(* (replay.py:549-576) stay silent as long as the     *)
(* server frames its pokes and counts as it should.                         *)
THEOREM ServerNotAccused ==
  ASSUME Transport = "ws", ~PushResponses
  PROVE  Spec => []NoFalseAlarm
<1>1. Safe => NoFalseAlarm
  BY DEF Safe, Orderly, NoFalseAlarm
<1> QED
  BY <1>1, SafeInvariant, PTL

(* The cookie of a reconnect (replay.py:319-348) names a committed version  *)
(* whose lmid the client has: the catch-up from it leaves nothing out.      *)
THEOREM ResumesFromKnown ==
  ASSUME Transport = "ws", ~PushResponses
  PROVE  Spec => []ResumeSound
<1>1. Safe => ResumeSound
  BY LenProperties DEF Safe, Orderly, Resumable, ResumeSound, TypeInv, TypeOK
<1> QED
  BY <1>1, SafeInvariant, PTL

(* The counters implement the ledger: acknowledgements arrive against       *)
(* attempts already made, and a discard never exceeds what was attempted.   *)
THEOREM CountersImplementLedger ==
  ASSUME Transport = "ws", ~PushResponses
  PROVE  Spec => ImplementsLedger
<1>1. Init => L!LedgerInit
  BY DEF Init, L!LedgerInit
<1>2. ASSUME Safe, Safe', [Next]_vars
      PROVE  [L!LedgerNext]_(L!ledgerVars)
  <2> USE DEF clientVars, loopVars, taskVars, pokeVars, mutStats, clockVars, netVars, serverVars,
              L!ledgerVars
  <2>1. /\ Backed /\ Balanced /\ Balanced'
        /\ acked \in Nat /\ mid \in Nat /\ mutation_ok \in Nat /\ mutation_ok' \in Nat
        /\ mutations_sent \in Nat /\ mutation_abandoned \in Nat
    BY <1>2, Numbers DEF Safe, TypeInv, TypeOK
  <2>2. CASE Push \/ PushFails \/ Post
    BY <2>2 DEF Push, PushFails, Post, NextMutation, L!LedgerNext, L!Issue
  <2>3. CASE Leave \/ Return \/ Retire
    <3>1. /\ mutation_abandoned' = mutation_abandoned + Discarded
          /\ UNCHANGED <<mutations_sent, mutation_ok>> /\ InSession
      BY <2>3 DEF Leave, Return, Retire, Abandon, InSession
    <3>2. Discarded \in Nat /\ Discarded <= mutations_sent
      BY <2>1, <3>1 DEF Discarded, L!LargerOf, Balanced
    <3>3. CASE Discarded = 0
      BY <2>1, <3>1, <3>3
    <3>4. CASE Discarded # 0
      BY <2>1, <3>1, <3>2, <3>4 DEF L!LedgerNext, L!WriteOff
    <3> QED
      BY <3>3, <3>4
  <2>4. CASE RecvPokePart
    <3>1. /\ UNCHANGED <<mutations_sent, mutation_abandoned>>
          /\ mutation_ok' = mutation_ok + NewlyAcked(Head(down).lm)
          /\ down # <<>> /\ Head(down).tag = "pokePart"
      BY <2>4 DEF RecvPokePart, Receive
    <3>2. Head(down).lm \in Nat
      BY <1>2, <3>1, HeadDown, FrameFields DEF Safe
    <3>3. mutation_ok' >= mutation_ok
      BY <2>1, <3>1, <3>2 DEF NewlyAcked
    <3>4. mutation_ok' <= mutations_sent
      BY <2>1, <3>1 DEF Balanced
    <3> QED
      BY <2>1, <3>1, <3>3, <3>4 DEF L!LedgerNext, L!Acknowledge
  <2>5. CASE RecvPushResponse
    <3>1. down # <<>> /\ Head(down).tag = "pushResponse"
      BY <2>5 DEF RecvPushResponse, Receive
    <3> QED
      BY <1>2, <2>1, <3>1, HeadDown DEF Backed, FrameBacked, Safe
  <2>6. CASE PostAnswered \/ PostLost
    BY <2>1, <2>6 DEF PostAnswered, PostLost, Backed
  <2>7. CASE \/ RecvPokeStart \/ RecvPokeEnd \/ RecvError \/ ReaderExit
             \/ MutatorExit \/ ChurnExit \/ ServerPost
    BY <2>7 DEF RecvPokeStart, RecvPokeEnd, RecvError, ReaderExit, Receive, MutatorExit,
                ChurnExit, ServerPost
  <2>8. CASE \/ Open \/ OpenThenSendFails \/ OpenFails \/ Teardown \/ Finish
    BY <2>8 DEF Open, OpenThenSendFails, OpenFails, Opened, NewSession, Teardown, Finish
  <2>9. CASE \/ SessionDeadline \/ RunDeadline \/ Drop \/ ServerApply \/ ServerReplicate
             \/ ServerPoke \/ ServerError \/ Terminated \/ UNCHANGED vars
    BY <2>9 DEF SessionDeadline, RunDeadline, Drop, ServerApply, ServerReplicate,
                ServerPoke, ServerError, Terminated, vars
  <2> QED
    BY <1>2, <2>2, <2>3, <2>4, <2>5, <2>6, <2>7, <2>8, <2>9 DEF Next, Reader, Mutator, Loop
<1>3. Safe /\ Safe' /\ [Next]_vars => [L!LedgerNext]_(L!ledgerVars)
  BY <1>2
<1> QED
  BY <1>1, <1>3, SafeInvariant, PTL DEF Spec, ImplementsLedger, L!LedgerSpec
=============================================================================
