---------------------------- MODULE Threads_proof ----------------------------
(***************************************************************************)
(* Proofs about Threads, for any number of user threads, any depth of      *)
(* calls and any listeners that call no more than MayAssumption allows.    *)
(*                                                                         *)
(* What makes LocksAscend inductive is that the calls a thread is in climb *)
(* (Ordered), also through those that lock nothing, and that a mutex is    *)
(* owned by whom a call on the stack says (Owners).                        *)
(***************************************************************************)
EXTENDS Threads, SequenceTheorems, TLAPS

Locking == {"tell", "change", "send_to_self"}

\* A call that locks mutexes is below those made from it, clear_all apart, which
\* locks none.
Under(p, q) ==
    p.does \in Locking /\ q # Clear => p.of \in Kind /\ q.of \in Kind /\ Height[p.of] < Height[q.of]

Ordered(s) == \A i, j \in 1..Len(s) : i < j => Under(s[i].op, s[j].op)

\* The mutexes the calls of a stack have locked.
Mine(s) == {m \in Mutex : \E i \in 1..Len(s) : \E k \in 1..s[i].got : Locks(s[i].op)[k] = m}

Owners == \A t \in Thread : \A m \in Mutex : owner[m] = t <=> m \in Mine(stack[t])

NetStages == {"enter", "up", "posted", "polling", "down"}

\* Under all calls of the network thread is sync_run, and nowhere else.
NetSound(s) == s # <<>> =>
    /\ s[1].op = SyncRun /\ s[1].at \in NetStages
    /\ \A i \in 2..Len(s) : s[i].op # SyncRun

\* What m_running and the io_service are, by the stage of sync_run.
Handshake ==
    /\ RunReturnsRunning
    /\ stack[Net] # <<>> =>
         /\ stack[Net][1].at \in {"up", "posted", "polling"} => running
         /\ stack[Net][1].at = "down" => stopped

Climb == \A t \in Thread : Ordered(stack[t])

Inv == TypeOK /\ Climb /\ Owners /\ NetSound(stack[Net]) /\ Handshake

------------------------------------------------------------------------------
(* Calls and their mutexes. *)

LEMMA OpFacts ==
    ASSUME NEW op \in Ops
    PROVE  /\ op.does \in {"tell", "change", "send_to_self", "clear", "disconnect", "run", "sync_run", "connect", "join", "destroy"}
           /\ op.does \in Locking \union {"disconnect"} => op.of \in Kind
           /\ op.does \notin Locking \union {"disconnect"} => op.of = "none"
           /\ op.does = "disconnect" => op.of = "disconnection"
           /\ op.does = "sync_run" <=> op = SyncRun
           /\ op.does = "clear" <=> op = Clear
           /\ op.does \notin Locking <=> Locks(op) = <<>>
  BY LayerAssumption DEF Ops, Anywhere, Lifecycle, Tell, Change, SendToSelf, Clear, Disconnect, Run, SyncRun, Connect,
        Join, Destroy, Op, Kind, Locking, Locks

LEMMA OpsTyped ==
    /\ \A kind \in Kind : Tell(kind) \in Ops /\ May[kind] \subseteq Ops
    /\ Anywhere \subseteq Ops /\ Lifecycle \subseteq Ops
    /\ {Run, SyncRun, Connect, Join, Destroy, Disconnect} \subseteq Ops
    /\ SyncRun \notin Anywhere \union Lifecycle
    /\ \A kind \in Kind : Tell(kind) # SyncRun
  BY MayAssumption DEF Ops, Anywhere, Lifecycle, Tell, Change, SendToSelf, Clear, Disconnect, Run, SyncRun, Connect,
        Join, Destroy, Op, Kind

\* The mutexes of a call are of its height, and climb.
LEMMA LocksFacts ==
    ASSUME NEW op \in Ops
    PROVE  /\ Locks(op) \in Seq(Mutex) /\ Len(Locks(op)) \in 0..2
           /\ \A k \in 1..Len(Locks(op)) : /\ Locks(op)[k] \in Mutex
                                           /\ Rank[Locks(op)[k]] \in {2 * Height[op.of] - 1, 2 * Height[op.of]}
           /\ \A k, l \in 1..Len(Locks(op)) : k < l => Rank[Locks(op)[k]] < Rank[Locks(op)[l]]
  <1>1. CASE op.does = "tell"
    <2>1. op.of \in Kind
      BY <1>1, OpFacts DEF Locking
    <2>2. /\ Lower[op.of] \in Mutex /\ Upper[op.of] \in Mutex
          /\ Rank[Lower[op.of]] = 2 * Height[op.of] - 1 /\ Rank[Upper[op.of]] = 2 * Height[op.of]
          /\ Height[op.of] \in Nat
      BY <2>1 DEF Kind, Lower, Upper, Mutex, Rank, Height
    <2> QED
      BY <1>1, <2>2, LayerAssumption DEF Locks
  <1>2. CASE op.does = "change"
    <2>1. op.of \in Kind
      BY <1>2, OpFacts DEF Locking
    <2>2. /\ Lower[op.of] \in Mutex /\ Upper[op.of] \in Mutex
          /\ Rank[Lower[op.of]] = 2 * Height[op.of] - 1 /\ Rank[Upper[op.of]] = 2 * Height[op.of]
          /\ Height[op.of] \in Nat
      BY <2>1 DEF Kind, Lower, Upper, Mutex, Rank, Height
    <2> QED
      BY <1>2, <2>2, LayerAssumption DEF Locks
  <1>3. CASE op.does = "send_to_self"
    <2>1. op.of = "data"
      BY <1>3 DEF Ops, Anywhere, Lifecycle, Tell, Change, SendToSelf, Clear, Disconnect, Run, SyncRun, Connect,
        Join, Destroy, Op
    <2>2. /\ Upper["data"] \in Mutex
          /\ Rank[Upper["data"]] = 2 * Height["data"]
          /\ Height["data"] \in Nat
      BY DEF Kind, Lower, Upper, Mutex, Rank, Height
    <2> QED
      BY <1>3, <2>1, <2>2 DEF Locks
  <1>4. CASE op.does \notin Locking
    <2>1. Locks(op) = <<>>
      BY <1>4, OpFacts
    <2> QED
      BY <2>1
  <1> QED
    BY <1>1, <1>2, <1>3, <1>4 DEF Locking

LEMMA RankFacts ==
    /\ \A m \in Mutex : Rank[m] \in Nat
    /\ \A m, n \in Mutex : Rank[m] = Rank[n] => m = n
    /\ \A kind \in Kind : Height[kind] \in Nat
  BY DEF Mutex, Rank, Kind, Height

------------------------------------------------------------------------------
(* Stacks: what each way of changing one keeps. *)

LEMMA FrameTyped ==
    ASSUME NEW op \in Ops
    PROVE  Frame(op) \in Frames
  BY LocksFacts DEF Frame, Frames, Stages

LEMMA FrontFacts ==
    ASSUME NEW S, NEW s \in Seq(S), s # <<>>
    PROVE  /\ Len(s) \in Nat /\ Len(s) >= 1
           /\ Front(s) \in Seq(S) /\ Len(Front(s)) = Len(s) - 1
           /\ \A i \in 1..Len(Front(s)) : Front(s)[i] = s[i]
           /\ Last(s) = s[Len(s)] /\ Last(s) \in S
  <1>1. Len(s) \in Nat /\ Len(s) >= 1
    OBVIOUS
  <1>2. Last(s) = s[Len(s)] /\ Last(s) \in S
    BY <1>1 DEF Last
  <1>3. \A i \in 1..(Len(s) - 1) : s[i] \in S
    BY <1>1
  <1>4. /\ Front(s) \in Seq(S) /\ Len(Front(s)) = Len(s) - 1
        /\ \A i \in 1..(Len(s) - 1) : Front(s)[i] = s[i]
    <2> DEFINE n == Len(s) - 1
    <2>1. 1 \in Int /\ n \in Int /\ \A i \in 1..n : s[i] \in S
      BY <1>1, <1>3
    <2>2. /\ SubSeq(s, 1, n) \in Seq(S)
          /\ Len(SubSeq(s, 1, n)) = IF 1 <= n THEN n - 1 + 1 ELSE 0
          /\ \A i \in 1..(n - 1 + 1) : SubSeq(s, 1, n)[i] = s[1 + i - 1]
      BY ONLY <2>1, SubSeqProperties
    <2>3. n - 1 + 1 = n /\ n >= 0 /\ \A i \in 1..n : 1 + i - 1 = i
      BY <1>1
    <2> HIDE DEF n
    <2>4. Len(SubSeq(s, 1, n)) = n /\ \A i \in 1..n : SubSeq(s, 1, n)[i] = s[i]
      BY <2>1, <2>2, <2>3
    <2> QED
      BY <2>2, <2>4 DEF Front, n
  <1> QED
    BY <1>1, <1>2, <1>4

\* The last call goes on.
LEMMA Replaced ==
    ASSUME NEW s \in Seq(Frames), s # <<>>, NEW f \in Frames, f.op = Last(s).op, f.got = Last(s).got
    PROVE  LET r == Append(Front(s), f)
           IN  /\ r \in Seq(Frames) /\ Len(r) = Len(s) /\ r # <<>>
               /\ r[Len(s)] = f /\ \A i \in 1..(Len(s) - 1) : r[i] = s[i]
               /\ Ordered(s) => Ordered(r)
               /\ Mine(r) = Mine(s)
  <1> DEFINE r == Append(Front(s), f)
  <1>1. /\ r \in Seq(Frames) /\ Len(r) = Len(s) /\ r # <<>>
        /\ r[Len(s)] = f /\ \A i \in 1..(Len(s) - 1) : r[i] = s[i]
    BY FrontFacts
  <1>2. \A i \in 1..Len(s) : r[i].op = s[i].op /\ r[i].got = s[i].got
    <2> TAKE i \in 1..Len(s)
    <2>1. CASE i = Len(s)
      <3>1. Last(s) = s[i] /\ r[i] = f
        BY <1>1, <2>1, FrontFacts
      <3> QED
        BY <3>1
    <2>2. CASE i < Len(s)
      <3>1. i \in 1..(Len(s) - 1)
        BY <2>2, FrontFacts
      <3> QED
        BY <1>1, <3>1
    <2>3. i = Len(s) \/ i < Len(s)
      BY FrontFacts
    <2> QED
      BY <2>1, <2>2, <2>3
  <1>3. Ordered(s) => Ordered(r)
    BY <1>1, <1>2 DEF Ordered
  <1>4. Mine(r) = Mine(s)
    BY <1>1, <1>2 DEF Mine
  <1> QED
    BY <1>1, <1>3, <1>4

\* A call is made.
LEMMA Pushed ==
    ASSUME NEW s \in Seq(Frames), NEW op \in Ops
    PROVE  LET r == Append(s, Frame(op))
           IN  /\ r \in Seq(Frames) /\ Len(r) = Len(s) + 1 /\ r # <<>>
               /\ r[Len(s) + 1] = Frame(op) /\ \A i \in 1..Len(s) : r[i] = s[i]
               /\ Ordered(s) /\ (\A i \in 1..Len(s) : Under(s[i].op, op)) => Ordered(r)
               /\ Mine(r) = Mine(s)
  <1> DEFINE r == Append(s, Frame(op))
  <1>1. /\ r \in Seq(Frames) /\ Len(r) = Len(s) + 1 /\ r # <<>>
        /\ r[Len(s) + 1] = Frame(op) /\ \A i \in 1..Len(s) : r[i] = s[i]
    BY FrameTyped
  <1>2. Frame(op).op = op /\ Frame(op).got = 0
    BY DEF Frame
  <1>3. ASSUME Ordered(s), \A i \in 1..Len(s) : Under(s[i].op, op)
        PROVE  Ordered(r)
    BY <1>1, <1>2, <1>3 DEF Ordered
  <1>4. Mine(r) = Mine(s)
    BY <1>1, <1>2 DEF Mine
  <1> QED
    BY <1>1, <1>3, <1>4

\* A call that has unlocked all its mutexes returns.
LEMMA Popped ==
    ASSUME NEW s \in Seq(Frames), s # <<>>, Last(s).got = 0
    PROVE  /\ Front(s) \in Seq(Frames)
           /\ Ordered(s) => Ordered(Front(s))
           /\ Mine(Front(s)) = Mine(s)
  <1>1. /\ Len(Front(s)) = Len(s) - 1 /\ Len(s) \in Nat \ {0} /\ s[Len(s)].got = 0
        /\ \A i \in 1..Len(Front(s)) : Front(s)[i] = s[i]
    BY FrontFacts
  <1>2. Ordered(s) => Ordered(Front(s))
    BY <1>1 DEF Ordered
  <1>3. ASSUME NEW i \in 1..Len(s), NEW k \in 1..s[i].got
        PROVE  i \in 1..Len(Front(s))
    BY <1>1, <1>3
  <1>4. Mine(Front(s)) = Mine(s)
    BY <1>1, <1>3 DEF Mine
  <1> QED
    BY <1>2, <1>4, FrontFacts

\* Calls that a call may make lie above all that are on the stack.
LEMMA Above ==
    ASSUME NEW s \in Seq(Frames), s # <<>>, Ordered(s), NEW op \in Ops,
           \/ op = Clear
           \/ Last(s).op.of = "none" /\ Last(s).op # Clear
           \/ /\ op.of \in Kind /\ Last(s).op.of \in Kind
              /\ Height[Last(s).op.of] <= Height[op.of]
              /\ Last(s).op.does \in Locking => Height[Last(s).op.of] < Height[op.of]
    PROVE  \A i \in 1..Len(s) : Under(s[i].op, op)
  <1> SUFFICES ASSUME NEW i \in 1..Len(s) PROVE Under(s[i].op, op)
    OBVIOUS
  <1>1. Last(s) = s[Len(s)] /\ Len(s) \in Nat /\ Last(s) \in Frames
    BY FrontFacts
  <1>2. Last(s).op \in Ops /\ "none" \notin Kind /\ Clear.of = "none"
    BY <1>1 DEF Frames, Kind, Clear, Op
  <1>3. CASE op = Clear
    BY <1>3 DEF Under
  <1>4. CASE op # Clear /\ i = Len(s)
    BY <1>1, <1>2, <1>4, OpFacts DEF Under
  <1>5. CASE op # Clear /\ i < Len(s)
    <2>1. Under(s[i].op, Last(s).op)
      BY <1>1, <1>5 DEF Ordered
    <2> QED
      BY <1>2, <1>5, <2>1, RankFacts DEF Under
  <1> QED
    BY <1>1, <1>3, <1>4, <1>5

\* Its stage changes.
LEMMA AtStack ==
    ASSUME NEW s \in Seq(Frames), s # <<>>, Ordered(s), NEW at \in Stages
    PROVE  LET r == At(s, at)
           IN  /\ r \in Seq(Frames) /\ r # <<>> /\ Len(r) = Len(s)
               /\ Last(r) = [Last(s) EXCEPT !.at = at]
               /\ Ordered(r) /\ Mine(r) = Mine(s)
               /\ NetSound(s) /\ Last(s).op # SyncRun => NetSound(r) /\ r[1] = s[1]
               /\ NetSound(s) /\ Last(s).op = SyncRun /\ at \in NetStages => NetSound(r) /\ Len(r) = 1 /\ r[1].at = at
  <1> DEFINE f == [Last(s) EXCEPT !.at = at]
             r == At(s, at)
  <1>1. /\ Last(s) \in Frames /\ Last(s) = s[Len(s)] /\ Len(s) \in Nat /\ Len(s) >= 1
    BY FrontFacts
  <1>2. f \in Frames /\ f.op = Last(s).op /\ f.got = Last(s).got /\ f.at = at
    BY <1>1 DEF Frames
  <1> HIDE DEF f
  <1>3. r = Append(Front(s), f)
    BY DEF At, f
  <1> HIDE DEF r
  <1>4. /\ r \in Seq(Frames) /\ Len(r) = Len(s) /\ r # <<>>
        /\ r[Len(s)] = f /\ \A i \in 1..(Len(s) - 1) : r[i] = s[i]
        /\ Ordered(r) /\ Mine(r) = Mine(s)
    BY <1>2, <1>3, Replaced
  <1>5. Last(r) = f
    BY <1>4, FrontFacts
  <1>6. ASSUME NetSound(s), Last(s).op # SyncRun
        PROVE  NetSound(r) /\ r[1] = s[1]
    <2>1. Len(s) > 1
      BY <1>1, <1>6 DEF NetSound
    <2>2. r[1] = s[1]
      BY <1>4, <2>1, <1>1
    <2>3. \A i \in 2..Len(r) : r[i].op # SyncRun
      BY <1>1, <1>2, <1>4, <1>6 DEF NetSound
    <2> QED
      BY <1>6, <2>2, <2>3 DEF NetSound
  <1>7. ASSUME NetSound(s), Last(s).op = SyncRun, at \in NetStages
        PROVE  NetSound(r) /\ Len(r) = 1 /\ r[1].at = at
    <2>1. \A n \in Nat : n >= 1 /\ n \notin 2..n => n = 1
      OBVIOUS
    <2>2. Len(s) \notin 2..Len(s)
      BY <1>1, <1>7 DEF NetSound
    <2>3. Len(s) = 1
      BY <1>1, <2>1, <2>2
    <2> QED
      BY <1>2, <1>4, <1>7, <2>3 DEF NetSound
  <1> QED
    BY <1>4, <1>5, <1>6, <1>7 DEF f, r

\* A call above it is made.
LEMMA CallStack ==
    ASSUME NEW s \in Seq(Frames), s # <<>>, Ordered(s), NEW op \in Ops, op # SyncRun,
           \/ op = Clear
           \/ Last(s).op.of = "none" /\ Last(s).op # Clear
           \/ /\ op.of \in Kind /\ Last(s).op.of \in Kind
              /\ Height[Last(s).op.of] <= Height[op.of]
              /\ Last(s).op.does \in Locking => Height[Last(s).op.of] < Height[op.of]
    PROVE  LET r == Append(s, Frame(op))
           IN  /\ r \in Seq(Frames) /\ r # <<>>
               /\ Ordered(r) /\ Mine(r) = Mine(s)
               /\ r[1] = s[1] /\ (NetSound(s) => NetSound(r))
  <1>1. \A i \in 1..Len(s) : Under(s[i].op, op)
    BY Above
  <1> DEFINE r == Append(s, Frame(op))
  <1>2. /\ r \in Seq(Frames) /\ Len(r) = Len(s) + 1 /\ r # <<>>
        /\ r[Len(s) + 1] = Frame(op) /\ \A i \in 1..Len(s) : r[i] = s[i]
        /\ Ordered(r) /\ Mine(r) = Mine(s)
    BY <1>1, Pushed
  <1> HIDE DEF r
  <1>3. Len(s) \in Nat /\ Len(s) >= 1
    BY FrontFacts
  <1>4. r[1] = s[1]
    BY <1>2, <1>3
  <1>5. ASSUME NetSound(s) PROVE NetSound(r)
    <2>1. \A i \in 2..Len(r) : r[i].op # SyncRun
      <3> TAKE i \in 2..Len(r)
      <3>1. CASE i = Len(s) + 1
        BY <1>2, <3>1 DEF Frame
      <3>2. CASE i \in 2..Len(s)
        BY <1>2, <1>3, <1>5, <3>2 DEF NetSound
      <3> QED
        BY <1>2, <1>3, <3>1, <3>2
    <2> QED
      BY <1>4, <1>5, <2>1 DEF NetSound
  <1> QED
    BY <1>2, <1>4, <1>5 DEF r

------------------------------------------------------------------------------
(* States. *)

LEMMA TopFacts ==
    ASSUME TypeOK, NEW t \in Thread, stack[t] # <<>>
    PROVE  /\ stack[t] \in Seq(Frames)
           /\ Top(t) = Last(stack[t]) /\ Top(t) \in Frames
           /\ Top(t).op \in Ops /\ Top(t).got \in 0..2
           /\ Top(t).got <= Len(Locks(Top(t).op))
  <1>1. stack[t] \in Seq(Frames)
    BY DEF TypeOK
  <1>2. Last(stack[t]) \in Frames
    BY <1>1, FrontFacts
  <1> QED
    BY <1>1, <1>2 DEF Top, Frames

\* One stack changes, and no mutex.
LEMMA Stepped ==
    ASSUME Inv, NEW t \in Thread, NEW s \in Seq(Frames),
           stack' = [stack EXCEPT ![t] = s], UNCHANGED owner,
           Ordered(s), Mine(s) = Mine(stack[t]), t = Net => NetSound(s)
    PROVE  /\ stack' \in [Thread -> Seq(Frames)]
           /\ owner' \in [Mutex -> Thread \union {Free}]
           /\ Climb' /\ Owners' /\ NetSound(stack'[Net])
           /\ stack'[t] = s /\ \A u \in Thread \ {t} : stack'[u] = stack[u]
  <1>1. /\ stack' \in [Thread -> Seq(Frames)]
        /\ owner' \in [Mutex -> Thread \union {Free}]
        /\ stack'[t] = s /\ \A u \in Thread \ {t} : stack'[u] = stack[u]
    BY DEF Inv, TypeOK
  <1>2. Climb'
    BY <1>1 DEF Inv, Climb
  <1>3. Owners'
    BY <1>1 DEF Inv, Owners
  <1>4. Net \in Thread
    BY DEF Thread
  <1>5. NetSound(stack'[Net])
    BY <1>1, <1>4 DEF Inv
  <1> QED
    BY <1>1, <1>2, <1>3, <1>5

LEMMA HandshakeKept ==
    ASSUME Inv, stack'[Net] # <<>> => stack[Net] # <<>> /\ stack'[Net][1].at = stack[Net][1].at,
           running' = running, ready' => ready, stopped => stopped'
    PROVE  Handshake'
  BY DEF Inv, Handshake, RunReturnsRunning

\* What no action changes but Up, Reset, Down, Starts, Lock and Unlock.
Quiet ==
    /\ running' = running
    /\ ready' \in BOOLEAN /\ (ready' => ready)
    /\ stopped' \in BOOLEAN /\ (stopped => stopped')
    /\ gone' \in BOOLEAN
    /\ thread' \in {"none", "alive", "ended"} /\ (thread' = "alive" <=> thread = "alive")
    /\ calls' \in 0..MaxCalls

LEMMA Kept ==
    ASSUME Inv, Quiet, NEW t \in Thread, NEW s \in Seq(Frames),
           stack' = [stack EXCEPT ![t] = s], Ordered(s),
           t = Net => stack[t] # <<>> /\ s # <<>> /\ NetSound(s) /\ s[1].at = stack[t][1].at,
           owner' \in [Mutex -> Thread \union {Free}], Owners'
    PROVE  Inv'
  <1>1. /\ stack' \in [Thread -> Seq(Frames)]
        /\ stack'[t] = s /\ \A u \in Thread \ {t} : stack'[u] = stack[u]
    BY DEF Inv, TypeOK
  <1>2. Climb'
    BY <1>1 DEF Inv, Climb
  <1>3. Net \in Thread
    BY DEF Thread
  <1>4. CASE t = Net
    <2>1. /\ stack'[Net] # <<>> /\ stack[Net] # <<>>
          /\ NetSound(stack'[Net]) /\ stack'[Net][1].at = stack[Net][1].at
      BY <1>1, <1>4
    <2>2. Handshake'
      BY <2>1, HandshakeKept DEF Quiet, Inv
    <2>3. TypeOK'
      BY <1>1, <2>1 DEF Inv, TypeOK, Quiet
    <2> QED
      BY <1>2, <2>1, <2>2, <2>3 DEF Inv
  <1>5. CASE t # Net
    <2>1. stack'[Net] = stack[Net]
      BY <1>1, <1>3, <1>5
    <2>2. Handshake'
      BY <2>1, HandshakeKept DEF Quiet, Inv
    <2>3. TypeOK'
      BY <1>1, <2>1 DEF Inv, TypeOK, Quiet
    <2>4. NetSound(stack'[Net])
      BY <2>1 DEF Inv
    <2> QED
      BY <1>2, <2>2, <2>3, <2>4 DEF Inv
  <1> QED
    BY <1>4, <1>5

LEMMA Carried ==
    ASSUME Inv, Quiet, NEW t \in Thread, NEW s \in Seq(Frames),
           stack' = [stack EXCEPT ![t] = s], Ordered(s),
           t = Net => stack[t] # <<>> /\ s # <<>> /\ NetSound(s) /\ s[1].at = stack[t][1].at,
           UNCHANGED owner, Mine(s) = Mine(stack[t])
    PROVE  Inv'
  <1>1. owner' \in [Mutex -> Thread \union {Free}] /\ Owners'
    BY DEF Inv, TypeOK, Owners
  <1> QED
    BY <1>1, Kept

\* A thread goes on in its last call.
LEMMA Moved ==
    ASSUME Inv, Quiet, NEW t \in Thread, stack[t] # <<>>, Top(t).op # SyncRun,
           NEW at \in Stages, Goes(t, at), UNCHANGED owner
    PROVE  Inv'
  <1>1. /\ stack[t] \in Seq(Frames) /\ Ordered(stack[t]) /\ Last(stack[t]).op # SyncRun
        /\ (t = Net => NetSound(stack[t]))
    BY TopFacts DEF Inv, Climb, Top
  <1>2. /\ At(stack[t], at) \in Seq(Frames) /\ At(stack[t], at) # <<>>
        /\ Ordered(At(stack[t], at)) /\ Mine(At(stack[t], at)) = Mine(stack[t])
        /\ (t = Net => NetSound(At(stack[t], at)) /\ At(stack[t], at)[1] = stack[t][1])
    BY <1>1, AtStack
  <1>3. stack' = [stack EXCEPT ![t] = At(stack[t], at)]
    BY DEF Goes
  <1> QED
    BY <1>2, <1>3, Carried

\* A thread makes a call from its last one.
LEMMA Made ==
    ASSUME Inv, Quiet, NEW t \in Thread, stack[t] # <<>>,
           NEW op \in Ops, op # SyncRun, Calls(t, op), UNCHANGED owner,
           \/ op = Clear
           \/ Top(t).op.of = "none" /\ Top(t).op # Clear
           \/ /\ op.of \in Kind /\ Top(t).op.of \in Kind
              /\ Height[Top(t).op.of] <= Height[op.of]
              /\ Top(t).op.does \in Locking => Height[Top(t).op.of] < Height[op.of]
    PROVE  Inv'
  <1> DEFINE r == Append(stack[t], Frame(op))
  <1>1. /\ stack[t] \in Seq(Frames) /\ Ordered(stack[t]) /\ Top(t) = Last(stack[t])
        /\ (t = Net => NetSound(stack[t]))
    BY TopFacts DEF Inv, Climb
  <1>2. /\ r \in Seq(Frames) /\ r # <<>>
        /\ Ordered(r) /\ Mine(r) = Mine(stack[t])
        /\ r[1] = stack[t][1] /\ (NetSound(stack[t]) => NetSound(r))
    BY <1>1, CallStack
  <1>3. stack' = [stack EXCEPT ![t] = r]
    BY DEF Calls
  <1> HIDE DEF r
  <1> QED
    BY <1>1, <1>2, <1>3, Carried

\* A thread does both.
LEMMA MovedAndMade ==
    ASSUME Inv, Quiet, NEW t \in Thread, stack[t] # <<>>, Top(t).op # SyncRun,
           Top(t).op.of = "none", Top(t).op # Clear,
           NEW at \in Stages, NEW op \in Ops, op # SyncRun,
           stack' = [stack EXCEPT ![t] = Append(At(@, at), Frame(op))], UNCHANGED owner
    PROVE  Inv'
  <1> DEFINE a == At(stack[t], at)
             r == Append(a, Frame(op))
  <1>1. /\ stack[t] \in Seq(Frames) /\ Ordered(stack[t]) /\ Top(t) = Last(stack[t]) /\ Last(stack[t]) \in Frames
        /\ (t = Net => NetSound(stack[t]))
    BY TopFacts DEF Inv, Climb
  <1>2. /\ a \in Seq(Frames) /\ a # <<>>
        /\ Last(a) = [Last(stack[t]) EXCEPT !.at = at]
        /\ Ordered(a) /\ Mine(a) = Mine(stack[t])
        /\ (t = Net => NetSound(a) /\ a[1] = stack[t][1])
    BY <1>1, AtStack
  <1>3. Last(a).op.of = "none" /\ Last(a).op # Clear
    BY <1>1, <1>2 DEF Frames
  <1>4. stack' = [stack EXCEPT ![t] = r]
    OBVIOUS
  <1> HIDE DEF a
  <1>5. /\ r \in Seq(Frames) /\ r # <<>>
        /\ Ordered(r) /\ Mine(r) = Mine(a)
        /\ r[1] = a[1] /\ (NetSound(a) => NetSound(r))
    BY <1>2, <1>3, CallStack
  <1> HIDE DEF r
  <1> QED
    BY <1>2, <1>4, <1>5, Carried

------------------------------------------------------------------------------
(* Calls from outside. *)

LEMMA BoundedQuiet ==
    ASSUME Inv, Bounded, UNCHANGED <<owner, service>>
    PROVE  Quiet /\ UNCHANGED owner
  <1>1. calls' \in 0..MaxCalls
    BY ThreadAssumption DEF Inv, TypeOK, Bounded
  <1> QED
    BY <1>1 DEF service, Quiet, Inv, TypeOK

LEMMA UserCallsKeeps ==
    ASSUME Inv, NEW t \in Thread, UserCalls(t)
    PROVE  Inv'
  <1>1. PICK op \in Anywhere \union Lifecycle : Calls(t, op)
    BY DEF UserCalls
  <1>2. op \in Ops /\ op # SyncRun
    BY <1>1, OpsTyped
  <1>3. t # Net /\ stack[t] = <<>> /\ stack[t] \in Seq(Frames)
    BY ThreadAssumption DEF UserCalls
  <1> DEFINE r == Append(stack[t], Frame(op))
  <1>4. r \in Seq(Frames) /\ Ordered(r) /\ Mine(r) = Mine(stack[t])
    <2>1. Len(stack[t]) = 0
      BY <1>3
    <2>2. Ordered(stack[t]) /\ \A i \in 1..Len(stack[t]) : Under(stack[t][i].op, op)
      BY <2>1 DEF Ordered
    <2> QED
      BY <1>2, <1>3, <2>2, Pushed
  <1>5. stack' = [stack EXCEPT ![t] = r]
    BY <1>1 DEF Calls
  <1>6. Quiet /\ UNCHANGED owner
    BY BoundedQuiet DEF UserCalls
  <1> HIDE DEF r
  <1> QED
    BY <1>3, <1>4, <1>5, <1>6, Carried

LEMMA CallsBackKeeps ==
    ASSUME Inv, NEW t \in Thread, CallsBack(t)
    PROVE  Inv'
  <1>1. /\ stack[t] # <<>>
        /\ Top(t).op.does \in Locking
    BY DEF CallsBack, Is, Locking
  <1>2. Top(t).op.of \in Kind
    BY <1>1, TopFacts, OpFacts DEF Inv
  <1>3. PICK op \in May[Top(t).op.of] : Calls(t, op)
    BY DEF CallsBack
  <1>4. op \in Anywhere /\ (op = Clear \/ Height[Top(t).op.of] < Height[op.of])
    BY <1>2, <1>3, MayAssumption
  <1>5. op \in Ops /\ op # SyncRun
    BY <1>4, OpsTyped
  <1>6. op = Clear \/ op.of \in Kind
    BY <1>4 DEF Anywhere, Change, SendToSelf, Clear, Disconnect, Op, Kind
  <1>7. Quiet /\ UNCHANGED owner
    BY BoundedQuiet DEF CallsBack
  <1>8. op = Clear \/ Height[Top(t).op.of] <= Height[op.of]
    BY <1>2, <1>4, <1>6, RankFacts
  <1> QED
    BY <1>1, <1>2, <1>3, <1>4, <1>5, <1>6, <1>7, <1>8, Made

LEMMA HandlesKeeps ==
    ASSUME Inv, Handles
    PROVE  Inv'
  <1>1. Net \in Thread /\ stack[Net] # <<>> /\ Top(Net).op.does = "sync_run"
    BY DEF Handles, Is, Thread
  <1>2. Top(Net).op.of = "none" /\ Top(Net).op # Clear
    BY <1>1, TopFacts, OpFacts DEF Inv, Locking
  <1>3. PICK kind \in Kind : Calls(Net, Tell(kind))
    BY DEF Handles
  <1>4. Tell(kind) \in Ops /\ Tell(kind) # SyncRun
    BY OpsTyped
  <1>5. Quiet /\ UNCHANGED owner
    BY BoundedQuiet DEF Handles
  <1> QED
    BY <1>1, <1>2, <1>3, <1>4, <1>5, Made

LEMMA TellsLossKeeps ==
    ASSUME Inv, NEW t \in Thread, TellsLoss(t)
    PROVE  Inv'
  <1>1. stack[t] # <<>> /\ Top(t).op.does = "disconnect"
    BY DEF TellsLoss, Is
  <1>2. Top(t).op.of = "disconnection"
    BY <1>1, TopFacts, OpFacts DEF Inv
  <1>3. /\ Tell("disconnection") \in Ops /\ Tell("disconnection") # SyncRun
        /\ Tell("disconnection").of = "disconnection" /\ "disconnection" \in Kind
    BY OpsTyped DEF Kind, Tell, Op
  <1>4. Height["disconnection"] <= Height["disconnection"]
    BY DEF Height
  <1>5. Quiet /\ UNCHANGED owner /\ Calls(t, Tell("disconnection"))
    BY BoundedQuiet DEF TellsLoss
  <1> QED
    BY <1>1, <1>2, <1>3, <1>4, <1>5, Made DEF Locking

------------------------------------------------------------------------------
(* Mutexes. *)

\* What a thread gains or loses when its last call has n mutexes.
LEMMA GotStack ==
    ASSUME NEW s \in Seq(Frames), s # <<>>, Ordered(s),
           NEW n \in 0..2, n <= Len(Locks(Last(s).op))
    PROVE  LET r == Got(s, n)
           IN  /\ r \in Seq(Frames) /\ r # <<>> /\ Len(r) = Len(s) /\ Ordered(r)
               /\ \A i \in 1..Len(s) : r[i].op = s[i].op /\ r[i].at = s[i].at
               /\ \A i \in 1..(Len(s) - 1) : r[i] = s[i]
               /\ r[Len(s)].got = n
               /\ NetSound(s) => NetSound(r)
  <1> DEFINE f == [Last(s) EXCEPT !.got = n]
             r == Got(s, n)
  <1>1. /\ Last(s) \in Frames /\ Last(s) = s[Len(s)] /\ Len(s) \in Nat /\ Len(s) >= 1
    BY FrontFacts
  <1>2. f \in Frames /\ f.op = Last(s).op /\ f.got = n /\ f.at = Last(s).at
    BY <1>1 DEF Frames
  <1> HIDE DEF f
  <1>3. r = Append(Front(s), f)
    BY DEF Got, f
  <1>4. /\ r \in Seq(Frames) /\ Len(r) = Len(s) /\ r # <<>>
        /\ r[Len(s)] = f /\ \A i \in 1..(Len(s) - 1) : r[i] = s[i]
    BY <1>2, <1>3, FrontFacts
  <1> HIDE DEF r
  <1>5. ASSUME NEW i \in 1..Len(s) PROVE r[i].op = s[i].op /\ r[i].at = s[i].at
    <2>1. CASE i = Len(s)
      BY <1>1, <1>2, <1>4, <2>1
    <2>2. CASE i < Len(s)
      <3>1. i \in 1..(Len(s) - 1)
        BY <1>1, <2>2
      <3> QED
        BY <1>4, <3>1
    <2> QED
      BY <1>1, <2>1, <2>2
  <1>6. Ordered(r)
    BY <1>4, <1>5 DEF Ordered
  <1>7. NetSound(s) => NetSound(r)
    BY <1>1, <1>4, <1>5 DEF NetSound
  <1> QED
    BY <1>2, <1>4, <1>5, <1>6, <1>7 DEF r

\* What the calls below the last have locked ranks below all its mutexes.
LEMMA BelowRanks ==
    ASSUME NEW s \in Seq(Frames), s # <<>>, Ordered(s),
           NEW i \in 1..(Len(s) - 1), NEW k \in 1..s[i].got,
           NEW l \in 1..Len(Locks(Last(s).op))
    PROVE  Rank[Locks(s[i].op)[k]] < Rank[Locks(Last(s).op)[l]]
  <1> DEFINE p == s[i].op
             q == Last(s).op
  <1>1. /\ Last(s) \in Frames /\ Last(s) = s[Len(s)] /\ Len(s) \in Nat /\ Len(s) >= 1
        /\ i \in 1..Len(s) /\ i < Len(s)
    BY FrontFacts
  <1>2. s[i] \in Frames
    BY <1>1
  <1>3. p \in Ops /\ q \in Ops /\ s[i].got <= Len(Locks(p)) /\ s[i].got \in 0..2
    BY <1>1, <1>2 DEF Frames
  <1>4. Under(p, q)
    BY <1>1 DEF Ordered
  <1> HIDE DEF p, q
  <1>5. Len(Locks(p)) \in 0..2 /\ k \in 1..Len(Locks(p))
    BY <1>3, LocksFacts
  <1>6. p.does \in Locking
    BY <1>3, <1>5, OpFacts
  <1>7. p.of \in Kind /\ q.of \in Kind /\ Height[p.of] < Height[q.of]
    <2>1. Len(Locks(q)) # 0
      BY DEF q
    <2>2. q # Clear
      BY <1>3, <2>1, OpFacts DEF Locking
    <2> QED
      BY <1>4, <1>6, <2>2 DEF Under
  <1>8. Height[p.of] \in Nat /\ Height[q.of] \in Nat
    BY <1>7, RankFacts
  <1>9. Rank[Locks(p)[k]] \in {2 * Height[p.of] - 1, 2 * Height[p.of]}
    BY <1>3, <1>5, LocksFacts
  <1>10. Rank[Locks(q)[l]] \in {2 * Height[q.of] - 1, 2 * Height[q.of]}
    BY <1>3, LocksFacts DEF q
  <1>11. \A a, b \in Nat : a < b => \A x \in {2 * a - 1, 2 * a}, y \in {2 * b - 1, 2 * b} : x < y
    OBVIOUS
  <1>12. Rank[Locks(p)[k]] < Rank[Locks(q)[l]]
    BY <1>7, <1>8, <1>9, <1>10, <1>11
  <1> QED
    BY <1>12 DEF p, q

LEMMA LockKeeps ==
    ASSUME Inv, NEW t \in Thread, Lock(t)
    PROVE  Inv'
  <1> DEFINE s == stack[t]
             n == Top(t).got + 1
             m == Locks(Top(t).op)[n]
             r == Got(s, n)
  <1>1. /\ s \in Seq(Frames) /\ s # <<>> /\ Ordered(s) /\ Top(t) = Last(s) /\ Last(s).op \in Ops
        /\ Last(s).got \in 0..2 /\ Last(s).got < Len(Locks(Last(s).op))
        /\ (t = Net => NetSound(s))
    BY TopFacts DEF Lock, Inv, Climb
  <1>2. n \in 0..2 /\ n <= Len(Locks(Last(s).op)) /\ n \in 1..Len(Locks(Last(s).op))
    BY <1>1, LocksFacts
  <1>3. m \in Mutex
    BY <1>1, <1>2, LocksFacts
  <1>4. /\ owner[m] = Free /\ owner' = [owner EXCEPT ![m] = t]
        /\ stack' = [stack EXCEPT ![t] = r]
    BY DEF Lock
  <1>5. Len(s) \in Nat /\ Len(s) >= 1 /\ Last(s) = s[Len(s)]
    BY <1>1, FrontFacts
  <1>6. /\ r \in Seq(Frames) /\ r # <<>> /\ Len(r) = Len(s) /\ Ordered(r)
        /\ \A i \in 1..Len(s) : r[i].op = s[i].op /\ r[i].at = s[i].at
        /\ \A i \in 1..(Len(s) - 1) : r[i] = s[i]
        /\ r[Len(s)].got = n
        /\ NetSound(s) => NetSound(r)
    BY <1>1, <1>2, GotStack
  <1> HIDE DEF r
  <1>7. Mine(r) = Mine(s) \union {m}
    <2>1. ASSUME NEW i \in 1..Len(s), NEW k \in 1..r[i].got
          PROVE  Locks(r[i].op)[k] = m \/ k \in 1..s[i].got
      BY <1>1, <1>5, <1>6, <2>1
    <2>2. Mine(r) \subseteq Mine(s) \union {m}
      BY <1>6, <2>1 DEF Mine
    <2>3. ASSUME NEW i \in 1..Len(s), NEW k \in 1..s[i].got
          PROVE  k \in 1..r[i].got
      BY <1>1, <1>5, <1>6, <2>3
    <2>4. Mine(s) \subseteq Mine(r)
      BY <1>6, <2>3 DEF Mine
    <2>5. n \in 1..r[Len(s)].got /\ Len(s) \in 1..Len(r) /\ Locks(r[Len(s)].op)[n] = m
      BY <1>1, <1>2, <1>5, <1>6
    <2>6. m \in Mine(r)
      BY <1>3, <2>5 DEF Mine
    <2> QED
      BY <2>2, <2>4, <2>6
  <1>8. Owners'
    <2>1. stack'[t] = r /\ \A u \in Thread \ {t} : stack'[u] = stack[u]
      BY <1>4 DEF Inv, TypeOK
    <2>2. owner'[m] = t /\ \A o \in Mutex \ {m} : owner'[o] = owner[o]
      BY <1>3, <1>4 DEF Inv, TypeOK
    <2>3. \A u \in Thread : m \notin Mine(stack[u])
      BY <1>3, <1>4, ThreadAssumption DEF Inv, Owners
    <2> HIDE DEF m, s
    <2>4. \A u \in Thread : \A o \in Mutex : owner[o] = u <=> o \in Mine(stack[u])
      BY DEF Inv, Owners
    <2>5. Mine(stack'[t]) = Mine(stack[t]) \union {m}
      BY <1>7, <2>1 DEF s
    <2> QED
      BY <2>1, <2>2, <2>3, <2>4, <2>5 DEF Owners
  <1>9. owner' \in [Mutex -> Thread \union {Free}]
    BY <1>3, <1>4 DEF Inv, TypeOK
  <1>10. Quiet
    BY DEF Lock, service, Quiet, Inv, TypeOK
  <1>11. r[1].at = s[1].at
    BY <1>5, <1>6
  <1> QED
    BY <1>1, <1>4, <1>6, <1>8, <1>9, <1>10, <1>11, Kept

LEMMA UnlockKeeps ==
    ASSUME Inv, NEW t \in Thread, Unlock(t)
    PROVE  Inv'
  <1> DEFINE s == stack[t]
             g == Top(t).got
             m == Locks(Top(t).op)[g]
             r == Got(s, g - 1)
  <1>1. /\ s \in Seq(Frames) /\ s # <<>> /\ Ordered(s) /\ Top(t) = Last(s) /\ Last(s).op \in Ops
        /\ g \in 0..2 /\ g <= Len(Locks(Last(s).op)) /\ g > 0
        /\ (t = Net => NetSound(s))
    BY TopFacts DEF Unlock, Inv, Climb
  <1>2. g - 1 \in 0..2 /\ g - 1 <= Len(Locks(Last(s).op)) /\ g \in 1..Len(Locks(Last(s).op))
    BY <1>1, LocksFacts
  <1>3. m \in Mutex
    BY <1>1, <1>2, LocksFacts
  <1>4. /\ owner' = [owner EXCEPT ![m] = Free]
        /\ stack' = [stack EXCEPT ![t] = r]
    BY DEF Unlock
  <1>5. Len(s) \in Nat /\ Len(s) >= 1 /\ Last(s) = s[Len(s)]
    BY <1>1, FrontFacts
  <1>6. /\ r \in Seq(Frames) /\ r # <<>> /\ Len(r) = Len(s) /\ Ordered(r)
        /\ \A i \in 1..Len(s) : r[i].op = s[i].op /\ r[i].at = s[i].at
        /\ \A i \in 1..(Len(s) - 1) : r[i] = s[i]
        /\ r[Len(s)].got = g - 1
        /\ NetSound(s) => NetSound(r)
    BY <1>1, <1>2, GotStack
  <1> HIDE DEF r
  <1>7. Mine(r) = Mine(s) \ {m}
    <2>1. ASSUME NEW i \in 1..Len(s), NEW k \in 1..r[i].got
          PROVE  k \in 1..s[i].got /\ Locks(s[i].op)[k] # m
      <3>1. CASE i = Len(s)
        <4>1. k \in 1..(g - 1) /\ s[i] = Last(s) /\ s[i].got = g
          BY <1>1, <1>5, <1>6, <2>1, <3>1
        <4>2. k \in 1..Len(Locks(Last(s).op)) /\ k < g /\ k \in 1..g
          BY <1>1, <1>2, <4>1
        <4>3. Rank[Locks(Last(s).op)[k]] < Rank[m]
          BY <1>1, <1>2, <4>2, LocksFacts
        <4>4. Rank[m] \in Nat
          BY <1>3, RankFacts
        <4> QED
          BY <4>1, <4>2, <4>3, <4>4
      <3>2. CASE i < Len(s)
        <4>1. i \in 1..(Len(s) - 1) /\ k \in 1..s[i].got
          BY <1>5, <1>6, <2>1, <3>2
        <4>2. Rank[Locks(s[i].op)[k]] < Rank[m]
          BY <1>1, <1>2, <4>1, BelowRanks
        <4>3. Rank[m] \in Nat
          BY <1>3, RankFacts
        <4> QED
          BY <4>1, <4>2, <4>3
      <3> QED
        BY <1>5, <3>1, <3>2
    <2>2. Mine(r) \subseteq Mine(s) \ {m}
      BY <1>6, <2>1 DEF Mine
    <2>3. ASSUME NEW i \in 1..Len(s), NEW k \in 1..s[i].got, Locks(s[i].op)[k] # m
          PROVE  k \in 1..r[i].got
      <3>1. CASE i = Len(s)
        <4>1. k \in 1..g /\ k # g
          BY <1>1, <1>5, <2>3, <3>1
        <4> QED
          BY <1>1, <1>6, <3>1, <4>1
      <3>2. CASE i < Len(s)
        BY <1>5, <1>6, <2>3, <3>2
      <3> QED
        BY <1>5, <3>1, <3>2
    <2>4. Mine(s) \ {m} \subseteq Mine(r)
      BY <1>6, <2>3 DEF Mine
    <2> QED
      BY <2>2, <2>4
  <1>8. Owners'
    <2>1. stack'[t] = r /\ \A u \in Thread \ {t} : stack'[u] = stack[u]
      BY <1>4 DEF Inv, TypeOK
    <2>2. owner'[m] = Free /\ \A o \in Mutex \ {m} : owner'[o] = owner[o]
      BY <1>3, <1>4 DEF Inv, TypeOK
    <2>3. m \in Mine(s)
      BY <1>1, <1>2, <1>3, <1>5 DEF Mine
    <2> HIDE DEF m, s
    <2>4. \A u \in Thread : \A o \in Mutex : owner[o] = u <=> o \in Mine(stack[u])
      BY DEF Inv, Owners
    <2>5. owner[m] = t /\ \A u \in Thread \ {t} : m \notin Mine(stack[u])
      BY <1>3, <2>3, <2>4 DEF s
    <2>6. Mine(stack'[t]) = Mine(stack[t]) \ {m}
      BY <1>7, <2>1 DEF s
    <2> QED
      BY <2>1, <2>2, <2>4, <2>5, <2>6, ThreadAssumption DEF Owners
  <1>9. owner' \in [Mutex -> Thread \union {Free}]
    BY <1>3, <1>4 DEF Inv, TypeOK
  <1>10. Quiet
    BY DEF Unlock, service, Quiet, Inv, TypeOK
  <1>11. r[1].at = s[1].at
    BY <1>5, <1>6
  <1> QED
    BY <1>1, <1>4, <1>6, <1>8, <1>9, <1>10, <1>11, Kept

LEMMA ReturnKeeps ==
    ASSUME Inv, NEW t \in Thread, Return(t)
    PROVE  Inv'
  <1> DEFINE s == stack[t]
             r == Front(s)
  <1>1. /\ s \in Seq(Frames) /\ s # <<>> /\ Ordered(s) /\ Top(t) = Last(s)
        /\ Last(s).got = 0 /\ Last(s).at = "leave"
        /\ (t = Net => NetSound(s))
    BY TopFacts DEF Return, Inv, Climb
  <1>2. /\ r \in Seq(Frames) /\ Ordered(r) /\ Mine(r) = Mine(s)
    BY <1>1, Popped
  <1>3. /\ Len(s) \in Nat /\ Len(s) >= 1 /\ Last(s) = s[Len(s)]
        /\ Len(r) = Len(s) - 1 /\ \A i \in 1..Len(r) : r[i] = s[i]
    BY <1>1, FrontFacts
  <1>4. stack' = [stack EXCEPT ![t] = r]
    BY DEF Return
  <1> HIDE DEF r
  <1>5. ASSUME t = Net
        PROVE  r # <<>> /\ NetSound(r) /\ r[1].at = s[1].at
    <2>1. s[1].at # "leave" /\ s[1].op = SyncRun /\ \A i \in 2..Len(s) : s[i].op # SyncRun
      BY <1>1, <1>5 DEF NetSound, NetStages
    <2>2. Len(s) # 1
      BY <1>1, <1>3, <2>1
    <2>3. \A n, k \in Nat : n # 1 /\ n >= 1 /\ k = n - 1 => 1 \in 1..k
      OBVIOUS
    <2>4. Len(r) \in Nat
      BY <1>2
    <2>5. 1 \in 1..Len(r)
      BY <1>3, <2>2, <2>3, <2>4
    <2>6. r[1] = s[1]
      BY <1>3, <2>5
    <2>7. \A i \in 2..Len(r) : r[i].op # SyncRun
      BY <1>3, <2>1
    <2> QED
      BY <1>1, <1>5, <2>5, <2>6, <2>7 DEF NetSound
  <1>6. Quiet /\ UNCHANGED owner
    BY DEF Return, service, Quiet, Inv, TypeOK
  <1> QED
    BY <1>1, <1>2, <1>4, <1>5, <1>6, Carried

------------------------------------------------------------------------------
(* The other calls. *)

\* Where a thread is that is in a call of the program.
LEMMA IsFacts ==
    ASSUME Inv, NEW t \in Thread, NEW does, NEW at, Is(t, does, at), does # "sync_run"
    PROVE  /\ stack[t] # <<>> /\ Top(t).op # SyncRun
           /\ does # "clear" => Top(t).op # Clear
           /\ does \notin Locking \union {"disconnect"} => Top(t).op.of = "none"
  BY TopFacts, OpFacts DEF Is, Inv

LEMMA WorksKeeps ==
    ASSUME Inv, NEW t \in Thread, Works(t) \/ Stop(t) \/ Disconnected(t) \/ Joins(t) \/ Started(t)
    PROVE  Inv'
  <1>1. PICK at \in Stages : Goes(t, at)
    BY DEF Works, Stop, Disconnected, Joins, Started, Stages
  <1>2. stack[t] # <<>> /\ Top(t).op # SyncRun
    BY IsFacts DEF Works, Stop, Disconnected, Joins, Started
  <1>3. Quiet /\ UNCHANGED owner
    <2>1. CASE Works(t) \/ Disconnected(t)
      BY <2>1 DEF Works, Disconnected, service, Quiet, Inv, TypeOK
    <2>2. CASE Stop(t)
      BY <2>2 DEF Stop, Quiet, Inv, TypeOK
    <2>3. CASE Joins(t)
      BY <2>3 DEF Joins, Quiet, Inv, TypeOK
    <2>4. CASE Started(t)
      BY <2>4 DEF Started, Quiet, Inv, TypeOK
    <2> QED
      BY <2>1, <2>2, <2>3, <2>4
  <1> QED
    BY <1>1, <1>2, <1>3, Moved

LEMMA DestroysKeeps ==
    ASSUME Inv, NEW t \in Thread, Destroys(t)
    PROVE  Inv'
  <1>1. stack[t] # <<>> /\ Top(t).op # SyncRun /\ Top(t).op.of = "none" /\ Top(t).op # Clear
    BY IsFacts DEF Destroys, Locking
  <1>2. Quiet /\ UNCHANGED owner
    BY DEF Destroys, Quiet, Inv, TypeOK
  <1>3. /\ {Disconnect, Join} \subseteq Ops /\ Disconnect # SyncRun /\ Join # SyncRun
        /\ {"joining", "joined", "leave"} \subseteq Stages
    BY OpsTyped DEF Disconnect, Join, SyncRun, Op, Stages
  <1>4. CASE stack' = [stack EXCEPT ![t] = Append(At(@, "joining"), Frame(Disconnect))]
    BY <1>1, <1>2, <1>3, <1>4, MovedAndMade
  <1>5. CASE stack' = [stack EXCEPT ![t] = Append(At(@, "joined"), Frame(Join))]
    BY <1>1, <1>2, <1>3, <1>5, MovedAndMade
  <1>6. CASE Goes(t, "leave")
    BY <1>1, <1>2, <1>3, <1>6, Moved
  <1> QED
    BY <1>4, <1>5, <1>6 DEF Destroys

LEMMA ConnectsKeeps ==
    ASSUME Inv, NEW t \in Thread, Connects(t)
    PROVE  Inv'
  <1>1. stack[t] # <<>> /\ Top(t).op # SyncRun /\ Top(t).op.of = "none" /\ Top(t).op # Clear
    BY IsFacts DEF Connects, Locking
  <1>2. Quiet /\ UNCHANGED owner
    <2>1. CASE UNCHANGED <<owner, service, calls>>
      BY <2>1 DEF service, Quiet, Inv, TypeOK
    <2>2. CASE stopped' = TRUE /\ UNCHANGED <<owner, running, ready, thread, gone, calls>>
      BY <2>2 DEF Quiet, Inv, TypeOK
    <2> QED
      BY <2>1, <2>2 DEF Connects
  <1>3. /\ Tell("connection") \in Ops /\ Tell("connection") # SyncRun
        /\ Run \in Ops /\ Run # SyncRun
        /\ {"connected", "leave"} \subseteq Stages
    BY OpsTyped DEF Kind, Run, SyncRun, Op, Stages
  <1>4. CASE stack' = [stack EXCEPT ![t] = Append(At(@, "connected"), Frame(Tell("connection")))]
    BY <1>1, <1>2, <1>3, <1>4, MovedAndMade
  <1>5. CASE Goes(t, "leave")
    BY <1>1, <1>2, <1>3, <1>5, Moved
  <1>6. CASE Is(t, "connect", "connected") /\ stack' = [stack EXCEPT ![t] = Append(Front(@), Frame(Run))]
    <2> DEFINE s == stack[t]
               a == Front(s)
               r == Append(a, Frame(Run))
    <2>1. /\ s \in Seq(Frames) /\ s # <<>> /\ Ordered(s) /\ Top(t) = Last(s) /\ Last(s).op \in Ops
          /\ Last(s).op.does = "connect" /\ Last(s).op.of = "none" /\ Last(s).op # Clear
          /\ (t = Net => NetSound(s))
      BY <1>1, <1>6, TopFacts DEF Inv, Climb, Is
    <2>2. Last(s).got = 0
      BY <1>6, <2>1, OpFacts DEF Is, Locking
    <2>3. /\ a \in Seq(Frames) /\ Ordered(a) /\ Mine(a) = Mine(s)
      BY <2>1, <2>2, Popped
    <2>4. /\ Len(s) \in Nat /\ Len(s) >= 1 /\ Last(s) = s[Len(s)]
          /\ Len(a) = Len(s) - 1 /\ \A i \in 1..Len(a) : a[i] = s[i]
      BY <2>1, FrontFacts
    <2> HIDE DEF a
    <2>5. ASSUME NEW i \in 1..Len(a) PROVE Under(a[i].op, Run)
      <3>1. Under(s[i].op, Last(s).op)
        BY <2>1, <2>4 DEF Ordered
      <3>2. s[i].op.does \notin Locking
        BY <2>1, <3>1 DEF Under, Kind
      <3> QED
        BY <2>4, <3>2 DEF Under
    <2>6. /\ r \in Seq(Frames) /\ r # <<>> /\ Len(r) = Len(a) + 1
          /\ r[Len(a) + 1] = Frame(Run) /\ \A i \in 1..Len(a) : r[i] = a[i]
          /\ Ordered(r) /\ Mine(r) = Mine(a)
      BY <1>3, <2>3, <2>5, Pushed
    <2>7. stack' = [stack EXCEPT ![t] = r]
      BY <1>6 DEF a
    <2> HIDE DEF r
    <2>8. ASSUME t = Net
          PROVE  NetSound(r) /\ r[1].at = s[1].at
      <3>1. /\ s[1].op = SyncRun /\ s[1].at \in NetStages /\ \A i \in 2..Len(s) : s[i].op # SyncRun
        BY <2>1, <2>8 DEF NetSound
      <3>2. Len(s) # 1
        BY <1>1, <2>1, <2>4, <3>1
      <3>2a. \A n, k \in Nat : n # 1 /\ n >= 1 /\ k = n - 1 => 1 \in 1..k
        OBVIOUS
      <3>2b. Len(a) \in Nat
        BY <2>3
      <3>2c. 1 \in 1..Len(a)
        BY <2>4, <3>2, <3>2a, <3>2b
      <3>3. 1 \in 1..Len(a) /\ r[1] = s[1]
        BY <2>4, <2>6, <3>2c
      <3>4. ASSUME NEW i \in 2..Len(r) PROVE r[i].op # SyncRun
        <4>1. CASE i = Len(a) + 1
          BY <1>3, <2>6, <4>1 DEF Frame
        <4>2. CASE i \in 2..Len(a)
          BY <2>4, <2>6, <3>1, <4>2
        <4> QED
          BY <2>4, <2>6, <4>1, <4>2
      <3> QED
        BY <3>1, <3>3, <3>4 DEF NetSound
    <2> QED
      BY <1>1, <1>2, <2>3, <2>6, <2>7, <2>8, Carried
  <1> QED
    BY <1>4, <1>5, <1>6 DEF Connects

------------------------------------------------------------------------------
(* The network thread. *)

LEMMA StartsKeeps ==
    ASSUME Inv, NEW t \in Thread, Starts(t)
    PROVE  Inv'
  <1> DEFINE a == At(stack[t], "waiting")
             b == <<Frame(SyncRun)>>
  <1>1. stack[t] # <<>> /\ stack[t] \in Seq(Frames) /\ Ordered(stack[t]) /\ "waiting" \in Stages
    BY TopFacts DEF Starts, Is, Inv, Climb, Stages
  <1>2. stack[Net] = <<>> /\ t # Net /\ Net \in Thread
    BY <1>1 DEF Starts, Inv, TypeOK, Thread
  <1>3. a \in Seq(Frames) /\ Ordered(a) /\ Mine(a) = Mine(stack[t])
    BY <1>1, AtStack
  <1>4. b \in Seq(Frames) /\ Len(b) = 1 /\ b # <<>> /\ b[1] = Frame(SyncRun)
    BY OpsTyped, FrameTyped
  <1>5. Frame(SyncRun).op = SyncRun /\ Frame(SyncRun).got = 0 /\ Frame(SyncRun).at = "enter"
    BY DEF Frame
  <1>6. Ordered(b) /\ Mine(b) = {} /\ NetSound(b)
    BY <1>4, <1>5 DEF Ordered, Mine, NetSound, NetStages
  <1>7. Mine(<<>>) = {}
    BY DEF Mine
  <1> HIDE DEF a, b
  <1>8. /\ stack' \in [Thread -> Seq(Frames)]
        /\ stack'[t] = a /\ stack'[Net] = b
        /\ \A u \in Thread \ {t, Net} : stack'[u] = stack[u]
    BY <1>2, <1>3, <1>4 DEF Starts, Inv, TypeOK, a, b
  <1>9. TypeOK'
    BY <1>4, <1>8 DEF Starts, Inv, TypeOK
  <1>10. Climb'
    BY <1>3, <1>6, <1>8 DEF Inv, Climb
  <1>11. Owners'
    BY <1>2, <1>3, <1>6, <1>7, <1>8 DEF Inv, Owners, Starts
  <1>12. Handshake'
    BY <1>4, <1>5, <1>8 DEF Inv, Handshake, RunReturnsRunning, Starts
  <1> QED
    BY <1>6, <1>8, <1>9, <1>10, <1>11, <1>12 DEF Inv

LEMMA NetKeeps ==
    ASSUME Inv, NetStep
    PROVE  Inv'
  <1>1. Net \in Thread /\ stack[Net] # <<>> /\ Top(Net).op.does = "sync_run"
    BY DEF NetStep, Up, Reset, PollEnds, Down, Is, Thread
  <1>2. /\ stack[Net] \in Seq(Frames) /\ Ordered(stack[Net]) /\ Last(stack[Net]).op = SyncRun
        /\ NetSound(stack[Net]) /\ Top(Net) = Last(stack[Net]) /\ Top(Net).got = 0
    BY <1>1, TopFacts, OpFacts DEF Inv, Climb, Locking
  <1>3. Len(stack[Net]) = 1 /\ Top(Net) = stack[Net][1]
    <2>1. Len(stack[Net]) \in Nat /\ Len(stack[Net]) >= 1 /\ Last(stack[Net]) = stack[Net][Len(stack[Net])]
      BY <1>1, <1>2, FrontFacts
    <2>2. Len(stack[Net]) \notin 2..Len(stack[Net])
      BY <1>1, <1>2, <2>1 DEF NetSound
    <2>3. \A n \in Nat : n >= 1 /\ n \notin 2..n => n = 1
      OBVIOUS
    <2>4. Len(stack[Net]) = 1
      BY <2>1, <2>2, <2>3
    <2> QED
      BY <1>2, <2>1, <2>4
  <1>4. ASSUME NEW at \in NetStages, Goes(Net, at), UNCHANGED owner
        PROVE  /\ stack' \in [Thread -> Seq(Frames)] /\ stack'[Net] # <<>> /\ stack'[Net][1].at = at
               /\ Climb' /\ Owners' /\ NetSound(stack'[Net])
    <2> DEFINE r == At(stack[Net], at)
    <2>1. at \in Stages
      BY DEF NetStages, Stages
    <2>2. /\ r \in Seq(Frames) /\ r # <<>> /\ Ordered(r) /\ Mine(r) = Mine(stack[Net])
          /\ NetSound(r) /\ r[1].at = at
      BY <1>1, <1>2, <2>1, AtStack
    <2>3. stack' = [stack EXCEPT ![Net] = r]
      BY <1>4 DEF Goes
    <2> HIDE DEF r
    <2> QED
      BY <1>1, <1>4, <2>2, <2>3, Stepped
  <1>5. CASE Up
    <2>1. CASE Top(Net).at = "enter"
      <3>1. Goes(Net, "up") /\ UNCHANGED <<owner, ready, stopped, thread, gone, calls>> /\ running' = TRUE
        BY <1>5, <2>1 DEF Up, Is
      <3>2. "up" \in NetStages
        BY DEF NetStages
      <3>3. /\ stack' \in [Thread -> Seq(Frames)] /\ stack'[Net] # <<>> /\ stack'[Net][1].at = "up"
            /\ Climb' /\ Owners' /\ NetSound(stack'[Net])
        BY <1>4, <3>1, <3>2
      <3>4. Handshake'
        BY <3>1, <3>3 DEF Handshake, RunReturnsRunning
      <3>5. TypeOK'
        BY <1>1, <3>1, <3>3 DEF Inv, TypeOK
      <3> QED
        BY <3>3, <3>4, <3>5 DEF Inv
    <2>2. CASE Top(Net).at # "enter"
      <3>1. /\ Goes(Net, "posted") /\ UNCHANGED <<owner, running, stopped, thread, gone, calls>>
            /\ ready' = TRUE /\ Top(Net).at = "up"
        BY <1>5, <2>2 DEF Up, Is
      <3>2. "posted" \in NetStages
        BY DEF NetStages
      <3>3. /\ stack' \in [Thread -> Seq(Frames)] /\ stack'[Net] # <<>> /\ stack'[Net][1].at = "posted"
            /\ Climb' /\ Owners' /\ NetSound(stack'[Net])
        BY <1>4, <3>1, <3>2
      <3>4. running
        BY <1>1, <1>3, <3>1 DEF Inv, Handshake
      <3>5. Handshake'
        BY <3>1, <3>3, <3>4 DEF Handshake, RunReturnsRunning
      <3>6. TypeOK'
        BY <1>1, <3>1, <3>3 DEF Inv, TypeOK
      <3> QED
        BY <3>3, <3>5, <3>6 DEF Inv
    <2> QED
      BY <2>1, <2>2
  <1>6. CASE Reset
    <2>1. /\ Goes(Net, "polling") /\ UNCHANGED <<owner, running, ready, thread, gone, calls>>
          /\ stopped' = FALSE /\ Top(Net).at = "posted"
      BY <1>6 DEF Reset, Is
    <2>2. "polling" \in NetStages
      BY DEF NetStages
    <2>3. /\ stack' \in [Thread -> Seq(Frames)] /\ stack'[Net] # <<>> /\ stack'[Net][1].at = "polling"
          /\ Climb' /\ Owners' /\ NetSound(stack'[Net])
      BY <1>4, <2>1, <2>2
    <2>4. running
      BY <1>1, <1>3, <2>1 DEF Inv, Handshake
    <2>5. Handshake'
      BY <2>1, <2>3, <2>4 DEF Handshake, RunReturnsRunning
    <2>6. TypeOK'
      BY <1>1, <2>1, <2>3 DEF Inv, TypeOK
    <2> QED
      BY <2>3, <2>5, <2>6 DEF Inv
  <1>7. CASE PollEnds
    <2>1. /\ Goes(Net, "down") /\ UNCHANGED <<owner, service, calls>>
          /\ stopped
      BY <1>7 DEF PollEnds
    <2>2. "down" \in NetStages
      BY DEF NetStages
    <2>3. /\ stack' \in [Thread -> Seq(Frames)] /\ stack'[Net] # <<>> /\ stack'[Net][1].at = "down"
          /\ Climb' /\ Owners' /\ NetSound(stack'[Net])
      BY <1>4, <2>1, <2>2
    <2>4. Handshake'
      BY <2>1, <2>3 DEF Inv, Handshake, RunReturnsRunning, service
    <2>5. TypeOK'
      BY <1>1, <2>1, <2>3 DEF Inv, TypeOK, service
    <2> QED
      BY <2>3, <2>4, <2>5 DEF Inv
  <1>8. CASE Down
    <2>1. /\ Top(Net).at = "down" /\ running' = FALSE /\ thread' = "ended"
          /\ stack' = [stack EXCEPT ![Net] = <<>>]
          /\ UNCHANGED <<owner, ready, stopped, gone, calls>>
      BY <1>8 DEF Down, Is
    <2>2. /\ stack' \in [Thread -> Seq(Frames)] /\ stack'[Net] = <<>>
          /\ \A u \in Thread \ {Net} : stack'[u] = stack[u]
      BY <1>1, <2>1 DEF Inv, TypeOK
    <2>3. Mine(<<>>) = {} /\ Ordered(<<>>) /\ NetSound(<<>>)
      BY DEF Mine, Ordered, NetSound
    <2>4. Mine(stack[Net]) = {}
      BY <1>2, <1>3 DEF Mine
    <2>5. Climb'
      BY <2>2, <2>3 DEF Inv, Climb
    <2>6. Owners'
      BY <2>1, <2>2, <2>3, <2>4 DEF Inv, Owners
    <2>7. Handshake'
      BY <1>1, <1>3, <2>1, <2>2 DEF Inv, Handshake, RunReturnsRunning
    <2>8. TypeOK'
      BY <2>1, <2>2 DEF Inv, TypeOK
    <2> QED
      BY <2>2, <2>3, <2>5, <2>6, <2>7, <2>8 DEF Inv
  <1> QED
    BY <1>5, <1>6, <1>7, <1>8 DEF NetStep

------------------------------------------------------------------------------
(* The theorems. *)

LEMMA InitInv == Init => Inv
  <1> SUFFICES ASSUME Init PROVE Inv
    OBVIOUS
  <1>1. Net \in Thread /\ \A t \in Thread : stack[t] = <<>>
    BY DEF Init, Thread
  <1>2. TypeOK
    <2>1. stack \in [Thread -> Seq(Frames)]
      <3>1. <<>> \in Seq(Frames)
        OBVIOUS
      <3> QED
        BY <3>1 DEF Init
    <2>2. owner \in [Mutex -> Thread \union {Free}]
      BY DEF Init
    <2>3. calls \in 0..MaxCalls
      BY ThreadAssumption DEF Init
    <2> QED
      BY <1>1, <2>1, <2>2, <2>3 DEF Init, TypeOK
  <1>3. Ordered(<<>>) /\ Mine(<<>>) = {} /\ NetSound(<<>>)
    BY DEF Ordered, Mine, NetSound
  <1>4. Climb /\ NetSound(stack[Net])
    BY <1>1, <1>3 DEF Climb
  <1>5. Owners
    BY <1>1, <1>3, ThreadAssumption DEF Init, Owners
  <1>6. Handshake
    BY <1>1 DEF Init, Handshake, RunReturnsRunning
  <1> QED
    BY <1>2, <1>4, <1>5, <1>6 DEF Inv

LEMMA NextInv == Inv /\ [Next]_vars => Inv'
  <1> SUFFICES ASSUME Inv, [Next]_vars PROVE Inv'
    OBVIOUS
  <1>1. CASE UNCHANGED vars
    BY <1>1 DEF vars, service, Inv, TypeOK, Climb, Owners, Handshake, RunReturnsRunning
  <1>2. CASE Handles
    BY <1>2, HandlesKeeps
  <1>3. ASSUME NEW t \in Thread, UserCalls(t) \/ CallsBack(t) \/ TellsLoss(t) \/ Step(t)
        PROVE  Inv'
    <2>1. CASE UserCalls(t) \/ CallsBack(t) \/ TellsLoss(t)
      BY <2>1, UserCallsKeeps, CallsBackKeeps, TellsLossKeeps
    <2>2. CASE Lock(t) \/ Unlock(t) \/ Return(t)
      BY <2>2, LockKeeps, UnlockKeeps, ReturnKeeps
    <2>3. CASE Works(t) \/ Stop(t) \/ Disconnected(t) \/ Joins(t) \/ Started(t)
      BY <2>3, WorksKeeps
    <2>4. CASE Destroys(t) \/ Starts(t) \/ Connects(t)
      BY <2>4, DestroysKeeps, StartsKeeps, ConnectsKeeps
    <2>5. CASE NetStep
      BY <2>5, NetKeeps
    <2> QED
      BY <1>3, <2>1, <2>2, <2>3, <2>4, <2>5 DEF Step, MainStep
  <1> QED
    BY <1>1, <1>2, <1>3 DEF Next

LEMMA Invariance == Spec => []Inv
  <1> QED
    BY InitInv, NextInv, PTL DEF Spec

\* Calls hold no more mutexes than they lock, and m_thread has a network thread
\* exactly while that runs.
THEOREM TypeCorrect == Spec => []TypeOK
  <1>1. Inv => TypeOK
    BY DEF Inv
  <1> QED
    BY <1>1, Invariance, PTL

\* Whatever listeners call of what they may, threads wait for mutexes upwards only:
\* no ring of them waits for itself (every lock_guard of both classes).
THEOREM Ascending == Spec => []LocksAscend
  <1>1. ASSUME Inv PROVE LocksAscend
    <2> SUFFICES ASSUME NEW t \in Thread, NEW m \in Mutex, NEW n \in Mutex, Wants(t, m), owner[n] = t
                 PROVE  Rank[n] < Rank[m]
      BY DEF LocksAscend
    <2> DEFINE s == stack[t]
               w == Last(s).got + 1
    <2>1. /\ s \in Seq(Frames) /\ s # <<>> /\ Ordered(s) /\ Top(t) = Last(s) /\ Last(s).op \in Ops
          /\ Last(s).got \in 0..2 /\ Last(s).got < Len(Locks(Last(s).op))
          /\ m = Locks(Last(s).op)[w]
      BY <1>1, TopFacts DEF Inv, Climb, Wants
    <2>2. w \in 1..Len(Locks(Last(s).op))
      BY <2>1, LocksFacts
    <2>3. n \in Mine(s)
      BY <1>1 DEF Inv, Owners
    <2>3i. PICK i \in 1..Len(s) : \E k \in 1..s[i].got : Locks(s[i].op)[k] = n
      BY <2>3 DEF Mine
    <2>4. PICK k \in 1..s[i].got : Locks(s[i].op)[k] = n
      BY <2>3i
    <2>5. Len(s) \in Nat /\ Len(s) >= 1 /\ Last(s) = s[Len(s)]
      BY <2>1, FrontFacts
    <2> HIDE DEF s
    <2>6. CASE i = Len(s)
      <3>1. k \in 1..Last(s).got
        BY <2>5, <2>6
      <3>2. k \in 1..Len(Locks(Last(s).op)) /\ k < w
        BY <2>1, <2>2, <3>1
      <3>3. Rank[Locks(Last(s).op)[k]] < Rank[Locks(Last(s).op)[w]]
        BY <2>1, <2>2, <3>2, LocksFacts
      <3> QED
        BY <2>1, <2>4, <2>5, <2>6, <3>3
    <2>7. CASE i < Len(s)
      <3>1. i \in 1..(Len(s) - 1)
        BY <2>5, <2>7
      <3> QED
        BY <2>1, <2>2, <2>4, <3>1, BelowRanks
    <2> QED
      BY <2>5, <2>6, <2>7
  <1> QED
    BY <1>1, Invariance, PTL

LEMMA ListsAreLocked ==
    ASSUME NEW op \in Ops, op # Clear
    PROVE  /\ \A m \in Walked(op) \union Changed(op) :
                m \in Mutex /\ \E k \in 1..Len(Locks(op)) : Locks(op)[k] = m
           /\ Walked(op) # {} => Changed(op) = {}
  <1>1. CASE op.does = "tell"
    <2>1. op.of \in Kind
      BY <1>1, OpFacts DEF Locking
    <2>2. Lower[op.of] \in Mutex /\ Upper[op.of] \in Mutex
      BY <2>1 DEF Kind, Lower, Upper, Mutex
    <2>3. CASE Layer = "network"
      <3>1. Locks(op) = <<Lower[op.of], Upper[op.of]>>
        BY <1>1, <2>3 DEF Locks
      <3>2. 1 \in 1..Len(Locks(op)) /\ 2 \in 1..Len(Locks(op)) /\ Locks(op)[1] = Lower[op.of] /\ Locks(op)[2] = Upper[op.of]
        BY <3>1
      <3>3. Walked(op) = {Lower[op.of], Upper[op.of]} /\ Changed(op) = {}
        BY <1>1, <2>3 DEF Walked, Changed
      <3> QED
        BY <2>2, <3>2, <3>3
    <2>4. CASE Layer # "network"
      <3>1. Locks(op) = <<Lower[op.of]>>
        BY <1>1, <2>4 DEF Locks
      <3>2. 1 \in 1..Len(Locks(op)) /\ Locks(op)[1] = Lower[op.of]
        BY <3>1
      <3>3. Walked(op) = {Lower[op.of]} /\ Changed(op) = {}
        BY <1>1, <2>4 DEF Walked, Changed
      <3> QED
        BY <2>2, <3>2, <3>3
    <2> QED
      BY <2>3, <2>4
  <1>2. CASE op.does = "change"
    <2> DEFINE l == IF Layer = "network" THEN Upper[op.of] ELSE Lower[op.of]
    <2>1. op.of \in Kind
      BY <1>2, OpFacts DEF Locking
    <2>2. l \in Mutex
      BY <2>1 DEF Kind, Lower, Upper, Mutex
    <2>3. Locks(op) = <<l>> /\ Walked(op) = {} /\ Changed(op) = {l}
      BY <1>2 DEF Locks, Walked, Changed
    <2> HIDE DEF l
    <2>4. 1 \in 1..Len(Locks(op)) /\ Locks(op)[1] = l
      BY <2>3
    <2> QED
      BY <2>2, <2>3, <2>4
  <1>3. CASE op.does = "send_to_self"
    <2>1. Locks(op) = <<Upper["data"]>> /\ Walked(op) = {Upper["data"]} /\ Changed(op) = {}
      BY <1>3 DEF Locks, Walked, Changed
    <2>2. Upper["data"] \in Mutex
      BY DEF Upper, Mutex
    <2>3. 1 \in 1..Len(Locks(op)) /\ Locks(op)[1] = Upper["data"]
      BY <2>1
    <2> QED
      BY <2>1, <2>2, <2>3
  <1>4. CASE op.does \notin Locking
    BY <1>4, OpFacts DEF Locking, Walked, Changed
  <1> QED
    BY <1>1, <1>2, <1>3, <1>4 DEF Locking

\* Two calls on one stack have no mutex in common.
LEMMA FramesDiffer ==
    ASSUME NEW s \in Seq(Frames), Ordered(s), NEW i \in 1..Len(s), NEW j \in 1..Len(s), i < j,
           NEW k \in 1..Len(Locks(s[i].op)), NEW l \in 1..Len(Locks(s[j].op))
    PROVE  Locks(s[i].op)[k] # Locks(s[j].op)[l]
  <1> DEFINE p == s[i].op
             q == s[j].op
  <1>1. p \in Ops /\ q \in Ops
    BY DEF Frames
  <1>2. Under(p, q)
    BY DEF Ordered
  <1> HIDE DEF p, q
  <1>3. p.does \in Locking
    BY <1>1, OpFacts DEF p
  <1>4. p.of \in Kind /\ q.of \in Kind /\ Height[p.of] < Height[q.of]
    <2>1. Len(Locks(q)) # 0
      BY DEF q
    <2>2. q # Clear
      BY <1>1, <2>1, OpFacts DEF Locking
    <2> QED
      BY <1>2, <1>3, <2>2 DEF Under
  <1>5. Height[p.of] \in Nat /\ Height[q.of] \in Nat
    BY <1>4, RankFacts
  <1>6. Rank[Locks(p)[k]] \in {2 * Height[p.of] - 1, 2 * Height[p.of]}
    BY <1>1, LocksFacts DEF p
  <1>7. Rank[Locks(q)[l]] \in {2 * Height[q.of] - 1, 2 * Height[q.of]}
    BY <1>1, LocksFacts DEF q
  <1>8. \A a, b \in Nat : a < b => \A x \in {2 * a - 1, 2 * a}, y \in {2 * b - 1, 2 * b} : x # y
    OBVIOUS
  <1>9. Rank[Locks(p)[k]] # Rank[Locks(q)[l]]
    BY <1>4, <1>5, <1>6, <1>7, <1>8
  <1> QED
    BY <1>9 DEF p, q

\* No listener is added to or removed from a list while a thread goes through it,
\* that thread's own listeners included, nor is a list of connection or disconnection
\* listeners cleared (range-based loops under lock_guards of both classes); clear_all
\* and clear_any may clear the data listeners, which they do not lock.
THEOREM ListsRest == Spec => []WalkedListsRest
  <1>1. ASSUME Inv PROVE WalkedListsRest
    <2> SUFFICES ASSUME NEW t \in Thread, NEW u \in Thread, NEW p \in Inside(t), NEW q \in Inside(u),
                        NEW m \in Walked(p) \intersect Changed(q), q # Clear
                 PROVE  FALSE
      <3>1. Changed(Clear) = {Upper["data"]}
        BY DEF Changed, Clear, Op
      <3> QED
        BY <3>1 DEF WalkedListsRest
    <2>0. p # Clear
      BY DEF Walked, Clear, Op
    <2>1. PICK i \in 1..Len(stack[t]) : stack[t][i].op = p /\ stack[t][i].got = Len(Locks(p))
      BY <1>1 DEF Inside, Inv, TypeOK
    <2>2. PICK j \in 1..Len(stack[u]) : stack[u][j].op = q /\ stack[u][j].got = Len(Locks(q))
      BY <1>1 DEF Inside, Inv, TypeOK
    <2>3. stack[t] \in Seq(Frames) /\ stack[u] \in Seq(Frames) /\ Ordered(stack[t])
      BY <1>1 DEF Inv, TypeOK, Climb
    <2>4. p \in Ops /\ q \in Ops
      BY <2>1, <2>2, <2>3 DEF Frames
    <2>5. PICK k \in 1..Len(Locks(p)) : Locks(p)[k] = m
      BY <2>0, <2>4, ListsAreLocked
    <2>6. PICK l \in 1..Len(Locks(q)) : Locks(q)[l] = m
      BY <2>4, ListsAreLocked
    <2>7. m \in Mutex /\ m \in Mine(stack[t]) /\ m \in Mine(stack[u])
      BY <2>0, <2>1, <2>2, <2>4, <2>5, <2>6, ListsAreLocked DEF Mine
    <2>8. t = u
      BY <1>1, <2>7 DEF Inv, Owners
    <2>9. p # q
      BY <2>0, <2>4, ListsAreLocked
    <2>10. i # j
      BY <2>1, <2>2, <2>8, <2>9
    <2>11. CASE i < j
      <3>1. /\ j \in 1..Len(stack[t]) /\ stack[t][j].op = q
            /\ k \in 1..Len(Locks(stack[t][i].op)) /\ l \in 1..Len(Locks(stack[t][j].op))
        BY <2>1, <2>2, <2>5, <2>6, <2>8
      <3>2. Locks(stack[t][i].op)[k] # Locks(stack[t][j].op)[l]
        BY <2>3, <2>11, <3>1, FramesDiffer
      <3> QED
        BY <2>1, <2>5, <2>6, <3>1, <3>2
    <2>12. CASE j < i
      BY <2>1, <2>2, <2>3, <2>5, <2>6, <2>8, <2>12, FramesDiffer
    <2>13. i \in Int /\ j \in Int
      BY <2>3
    <2> QED
      BY <2>10, <2>11, <2>12, <2>13
  <1> QED
    BY <1>1, Invariance, PTL

\* run() returns with is_running() true unless the network was stopped meanwhile
\* (m_waitfor_run), for any number of users and calls.
THEOREM RunHandshake == Spec => []RunReturnsRunning
  <1>1. Inv => RunReturnsRunning
    BY DEF Inv, Handshake
  <1> QED
    BY <1>1, Invariance, PTL

------------------------------------------------------------------------------
(* The destructor. *)

\* Main is in the destructor.
Ends(s) == s # <<>> /\ s[1].op = Destroy

\* Only Main starts, joins and destroys, and nothing below the destructor.  While
\* it runs no other user is in a call; once it waits for the network thread
\* nothing but join() comes, and what that has joined nobody starts again.
Ending ==
    /\ \A t \in Thread \ {Main} : \A i \in 1..Len(stack[t]) : stack[t][i].op \notin Lifecycle
    /\ \A i \in 2..Len(stack[Main]) : stack[Main][i].op # Destroy
    /\ Ends(stack[Main]) \/ gone => \A v \in User \ {Main} : stack[v] = <<>>
    /\ Ends(stack[Main]) /\ stack[Main][1].at = "joined" =>
         /\ Len(stack[Main]) = 1 \/ (Len(stack[Main]) = 2 /\ stack[Main][2].op = Join)
         /\ thread = "alive" => Len(stack[Main]) = 2 /\ stack[Main][2].at # "leave"
    /\ gone =>
         /\ thread # "alive"
         /\ stack[Main] # <<>> =>
              Len(stack[Main]) = 1 /\ stack[Main][1].op = Destroy /\ stack[Main][1].at = "leave"

LEMMA LifecycleFacts ==
    /\ \A op \in Ops : /\ op \in Lifecycle <=> op.does \in {"run", "connect", "join", "destroy"}
                       /\ op.does = "destroy" <=> op = Destroy
                       /\ op.does = "join" <=> op = Join
    /\ \A op \in Anywhere : op \notin Lifecycle
    /\ \A kind \in Kind : Tell(kind) \notin Lifecycle
    /\ SyncRun \notin Lifecycle /\ Destroy # Join
    /\ {Destroy, Join} \subseteq Lifecycle
    /\ Run \notin {Destroy, Join}
  BY DEF Ops, Anywhere, Lifecycle, Tell, Change, SendToSelf, Clear, Disconnect, Run, SyncRun, Connect, Join, Destroy, Op

\* Of what is on the stack, everything but the last call stays as it was.
Rests(s, r) == \A i \in 1..(Len(s) - 1) : i \in 1..Len(r) /\ r[i] = s[i]

LEMMA OnlyMain ==
    ASSUME Inv, Ending, NEW t \in Thread, stack[t] # <<>>, Top(t).op \in Lifecycle
    PROVE  t = Main
  <1> DEFINE n == Len(stack[t])
  <1>1. n \in Nat /\ n >= 1 /\ Top(t) = stack[t][n]
    BY TopFacts, FrontFacts DEF Inv
  <1>2. n \in 1..n
    BY <1>1
  <1> QED
    BY <1>1, <1>2 DEF Ending

LEMMA AtRests ==
    ASSUME NEW s \in Seq(Frames), s # <<>>, NEW at \in Stages
    PROVE  LET r == At(s, at)
           IN  /\ r \in Seq(Frames) /\ Len(r) = Len(s) /\ Rests(s, r)
               /\ r[Len(s)].op = Last(s).op /\ r[Len(s)].at = at
  <1> DEFINE f == [Last(s) EXCEPT !.at = at]
             r == At(s, at)
  <1>1. Last(s) \in Frames /\ Len(s) \in Nat /\ Len(s) >= 1
    BY FrontFacts
  <1>2. f \in Frames /\ f.op = Last(s).op /\ f.got = Last(s).got /\ f.at = at
    BY <1>1 DEF Frames
  <1> HIDE DEF f
  <1>3. r = Append(Front(s), f)
    BY DEF At, f
  <1> HIDE DEF r
  <1>4. /\ r \in Seq(Frames) /\ Len(r) = Len(s)
        /\ r[Len(s)] = f /\ \A i \in 1..(Len(s) - 1) : r[i] = s[i]
    BY <1>2, <1>3, Replaced
  <1> QED
    BY <1>1, <1>2, <1>4 DEF r, Rests

\* Whatever goes on in a call that is neither the destructor's nor a join()'s.
LEMMA GoesOn ==
    ASSUME Inv, Ending, NEW t \in Thread, stack[t] # <<>>, Top(t).op \notin {Destroy, Join},
           NEW s \in Seq(Frames), stack' = [stack EXCEPT ![t] = s], Rests(stack[t], s),
           \A i \in 1..Len(s) : i >= Len(stack[t]) =>
               s[i].op \notin {Destroy, Join} /\ (s[i].op \in Lifecycle => t = Main),
           thread' = "alive" => thread = "alive", gone' = gone
    PROVE  Ending'
  <1> DEFINE n == Len(stack[t])
  <1>1. /\ stack[t] \in Seq(Frames) /\ n \in Nat /\ n >= 1 /\ Top(t) = stack[t][n]
        /\ Main \in Thread /\ Net \in Thread /\ Main # Net
    BY TopFacts, FrontFacts, ThreadAssumption DEF Inv, Thread
  <1>2. stack'[t] = s /\ \A u \in Thread \ {t} : stack'[u] = stack[u]
    BY DEF Inv, TypeOK
  <1>3. ~gone
    <2>1. CASE t = Main
      <3>1. gone => n = 1 /\ stack[t][1].op = Destroy
        BY <2>1 DEF Ending
      <3> QED
        BY <1>1, <3>1
    <2>2. CASE t = Net
      <3>1. gone => thread # "alive"
        BY DEF Ending
      <3> QED
        BY <2>2, <3>1 DEF Inv, TypeOK
    <2>3. CASE t \in User \ {Main}
      BY <2>3 DEF Ending
    <2> QED
      BY <2>1, <2>2, <2>3 DEF Thread
  <1>4. CASE t = Main
    <2>1. \A u \in Thread \ {Main} : stack'[u] = stack[u]
      BY <1>2, <1>4
    <2>2. \A i \in 2..Len(s) : s[i].op # Destroy
      <3> TAKE i \in 2..Len(s)
      <3>1. CASE i >= n
        BY <3>1, <1>4, <1>1
      <3>2. CASE i < n
        <4>1. i \in 1..(n - 1) /\ i \in 2..n
          BY <1>1, <3>2
        <4>2. s[i] = stack[t][i]
          BY <4>1 DEF Rests
        <4> QED
          BY <1>4, <4>1, <4>2 DEF Ending
      <3> QED
        BY <1>1, <3>1, <3>2
    <2>3. ASSUME Ends(s) PROVE Ends(stack[t]) /\ s[1] = stack[t][1] /\ n > 1
      <3>1. 1 \in 1..Len(s)
        BY <2>3 DEF Ends
      <3>2. ~(1 >= n)
        BY <2>3, <3>1 DEF Ends
      <3>3. 1 \in 1..(n - 1)
        BY <1>1, <3>2
      <3>4. s[1] = stack[t][1]
        BY <3>3 DEF Rests
      <3> QED
        BY <1>1, <2>3, <3>2, <3>4 DEF Ends
    <2>4. ~(Ends(stack[t]) /\ stack[t][1].at = "joined")
      <3> SUFFICES ASSUME Ends(stack[t]), stack[t][1].at = "joined" PROVE FALSE
        OBVIOUS
      <3>1. n = 1 \/ (n = 2 /\ stack[t][2].op = Join)
        BY <1>4 DEF Ending
      <3> QED
        BY <1>1, <3>1 DEF Ends
    <2>5. \A v \in User \ {Main} : v \in Thread \ {Main}
      BY DEF Thread
    <2>6. \A u \in Thread \ {Main} : \A i \in 1..Len(stack'[u]) : stack'[u][i].op \notin Lifecycle
      BY <2>1 DEF Ending
    <2>7. Ends(s) => \A v \in User \ {Main} : stack'[v] = <<>>
      BY <1>4, <2>1, <2>3, <2>5 DEF Ending
    <2>8. stack'[Main] = s
      BY <1>2, <1>4
    <2> HIDE DEF n
    <2> QED
      BY <1>3, <2>2, <2>3, <2>4, <2>6, <2>7, <2>8 DEF Ending
  <1>5. CASE t # Main
    <2>1. stack'[Main] = stack[Main]
      BY <1>1, <1>2, <1>5
    <2>2. \A i \in 1..Len(s) : s[i].op \notin Lifecycle
      <3> TAKE i \in 1..Len(s)
      <3>1. CASE i >= n
        BY <1>5, <3>1
      <3>2. CASE i < n
        <4>1. i \in 1..(n - 1) /\ i \in 1..n
          BY <1>1, <3>2
        <4>2. s[i] = stack[t][i]
          BY <4>1 DEF Rests
        <4> QED
          BY <1>5, <4>1, <4>2 DEF Ending
      <3> QED
        BY <1>1, <3>1, <3>2
    <2>3. \A u \in Thread \ {Main} : \A i \in 1..Len(stack'[u]) : stack'[u][i].op \notin Lifecycle
      BY <1>2, <2>2 DEF Ending
    <2>4. Ends(stack[Main]) => t \notin User
      BY <1>5 DEF Ending
    <2>5. Ends(stack[Main]) => \A v \in User \ {Main} : stack'[v] = <<>>
      <3>1. \A v \in User \ {Main} : v \in Thread
        BY DEF Thread
      <3> QED
        BY <1>2, <2>4, <3>1 DEF Ending
    <2> HIDE DEF n
    <2> QED
      BY <1>3, <2>1, <2>3, <2>5 DEF Ending
  <1> QED
    BY <1>4, <1>5

\* The last call moves to another stage.
LEMMA StageEnding ==
    ASSUME Inv, Ending, NEW t \in Thread, stack[t] # <<>>, Top(t).op \notin {Destroy, Join},
           NEW at \in Stages, Goes(t, at),
           thread' = "alive" => thread = "alive", gone' = gone
    PROVE  Ending'
  <1> DEFINE s == At(stack[t], at)
             n == Len(stack[t])
  <1>1. /\ stack[t] \in Seq(Frames) /\ n \in Nat /\ n >= 1 /\ Top(t) = stack[t][n] /\ Top(t) = Last(stack[t])
    BY TopFacts, FrontFacts DEF Inv
  <1>2. /\ s \in Seq(Frames) /\ Len(s) = n /\ Rests(stack[t], s) /\ s[n].op = Top(t).op
    BY <1>1, AtRests
  <1>3. stack' = [stack EXCEPT ![t] = s]
    BY DEF Goes
  <1>4. Top(t).op \in Lifecycle => t = Main
    BY OnlyMain
  <1> HIDE DEF s
  <1>5. \A i \in 1..Len(s) : i >= n =>
               s[i].op \notin {Destroy, Join} /\ (s[i].op \in Lifecycle => t = Main)
    <2> TAKE i \in 1..Len(s)
    <2> HAVE i >= n
    <2>1. i = n
      BY <1>1, <1>2
    <2> QED
      BY <1>2, <1>4, <2>1
  <1> QED
    BY <1>2, <1>3, <1>5, GoesOn

\* The last call makes another.
LEMMA CallEnding ==
    ASSUME Inv, Ending, NEW t \in Thread, stack[t] # <<>>, Top(t).op \notin {Destroy, Join},
           NEW op \in Ops, op \notin Lifecycle, Calls(t, op),
           thread' = "alive" => thread = "alive", gone' = gone
    PROVE  Ending'
  <1> DEFINE s == Append(stack[t], Frame(op))
             n == Len(stack[t])
  <1>1. /\ stack[t] \in Seq(Frames) /\ n \in Nat /\ n >= 1 /\ Top(t) = stack[t][n] /\ Top(t) = Last(stack[t])
    BY TopFacts, FrontFacts DEF Inv
  <1>2. /\ s \in Seq(Frames) /\ Len(s) = n + 1 /\ s[n + 1] = Frame(op) /\ \A i \in 1..n : s[i] = stack[t][i]
    BY <1>1, Pushed
  <1>3. stack' = [stack EXCEPT ![t] = s]
    BY DEF Calls
  <1>4. Top(t).op \in Lifecycle => t = Main
    BY OnlyMain
  <1>5. Frame(op).op = op /\ op \notin {Destroy, Join}
    BY LifecycleFacts DEF Frame
  <1> HIDE DEF s
  <1>6. \A i \in 1..Len(s) : i >= n =>
               s[i].op \notin {Destroy, Join} /\ (s[i].op \in Lifecycle => t = Main)
    <2> TAKE i \in 1..Len(s)
    <2> HAVE i >= n
    <2>1. i = n \/ i = n + 1
      BY <1>1, <1>2
    <2>2. s[n] = Top(t)
      <3>1. n \in 1..n
        BY <1>1
      <3> HIDE DEF n
      <3>2. s[n] = stack[t][n]
        BY <1>2, <3>1
      <3> QED
        BY <1>1, <3>2
    <2> QED
      BY <1>2, <1>4, <1>5, <2>1, <2>2
  <1>7. Rests(stack[t], s)
    BY <1>1, <1>2 DEF Rests
  <1> QED
    BY <1>2, <1>3, <1>6, <1>7, GoesOn

\* What no stage of starting or ending changes.
LEMMA Serviced ==
    ASSUME Inv, UNCHANGED service
    PROVE  (thread' = "alive" => thread = "alive") /\ gone' = gone
  BY DEF service

LEMMA InCallEnding ==
    ASSUME Inv, Ending, NEW t \in Thread,
           CallsBack(t) \/ TellsLoss(t) \/ Works(t) \/ Stop(t) \/ Disconnected(t) \/ Started(t)
    PROVE  Ending'
  <1>1. stack[t] # <<>> /\ Top(t).op.does \in {"tell", "send_to_self", "change", "clear", "disconnect", "run"}
    BY DEF CallsBack, TellsLoss, Works, Stop, Disconnected, Started, Is
  <1>2. Top(t).op \in Ops
    BY <1>1, TopFacts DEF Inv
  <1>3. Top(t).op \notin {Destroy, Join}
    BY <1>1, <1>2, LifecycleFacts DEF Lifecycle
  <1>4. (thread' = "alive" => thread = "alive") /\ gone' = gone
    BY DEF service, CallsBack, TellsLoss, Works, Stop, Disconnected, Started
  <1>5. CASE CallsBack(t)
    <2>1. Top(t).op.of \in Kind
      <3>1. Top(t).op.does \in Locking
        BY <1>5 DEF CallsBack, Is, Locking
      <3> QED
        BY <1>2, <3>1, OpFacts
    <2>2. PICK op \in May[Top(t).op.of] : Calls(t, op)
      BY <1>5 DEF CallsBack
    <2>3. op \in Anywhere
      BY <2>1, <2>2, MayAssumption
    <2>4. op \in Ops /\ op \notin Lifecycle
      BY <2>3, OpsTyped, LifecycleFacts
    <2> QED
      BY <1>1, <1>3, <1>4, <2>2, <2>4, CallEnding
  <1>6. CASE TellsLoss(t)
    <2>1. Calls(t, Tell("disconnection")) /\ "disconnection" \in Kind
      BY <1>6 DEF TellsLoss, Kind
    <2>2. Tell("disconnection") \in Ops /\ Tell("disconnection") \notin Lifecycle
      BY <2>1, OpsTyped, LifecycleFacts
    <2> QED
      BY <1>1, <1>3, <1>4, <2>1, <2>2, CallEnding
  <1>7. CASE Works(t) \/ Stop(t) \/ Disconnected(t) \/ Started(t)
    <2>1. PICK at \in Stages : Goes(t, at)
      <3>1. Goes(t, "leave") \/ Goes(t, "telling")
        BY <1>7 DEF Works, Stop, Disconnected, Started
      <3>2. "leave" \in Stages /\ "telling" \in Stages
        BY DEF Stages
      <3> QED
        BY <3>1, <3>2
    <2> QED
      BY <1>1, <1>3, <1>4, <2>1, StageEnding
  <1> QED
    BY <1>5, <1>6, <1>7

LEMMA MutexEnding ==
    ASSUME Inv, Ending, NEW t \in Thread, Lock(t) \/ Unlock(t)
    PROVE  Ending'
  <1> DEFINE n == Len(stack[t])
  <1>1. stack[t] # <<>>
    BY DEF Lock, Unlock
  <1>2. /\ stack[t] \in Seq(Frames) /\ n \in Nat /\ n >= 1 /\ Top(t) = stack[t][n] /\ Top(t) = Last(stack[t])
        /\ Top(t).op \in Ops /\ Top(t).got \in 0..2 /\ Top(t).got <= Len(Locks(Top(t).op))
        /\ Ordered(stack[t])
    BY <1>1, TopFacts, FrontFacts DEF Inv, Climb
  <1>3. Locks(Top(t).op) # <<>>
    <2>1. Len(Locks(Top(t).op)) > 0
      BY <1>2, LocksFacts DEF Lock, Unlock
    <2> QED
      BY <2>1
  <1>4. Top(t).op \notin Lifecycle
    <2>1. Top(t).op.does \in Locking
      BY <1>2, <1>3, OpFacts
    <2> QED
      BY <1>2, <2>1, LifecycleFacts DEF Locking
  <1>5. PICK k \in 0..2 : k <= Len(Locks(Top(t).op)) /\ stack' = [stack EXCEPT ![t] = Got(@, k)]
    <2>1. CASE Lock(t)
      <3>1. Top(t).got < Len(Locks(Top(t).op)) /\ stack' = [stack EXCEPT ![t] = Got(@, Top(t).got + 1)]
        BY <2>1 DEF Lock
      <3>2. Top(t).got + 1 \in 0..2 /\ Top(t).got + 1 <= Len(Locks(Top(t).op))
        BY <1>2, <3>1, LocksFacts
      <3> QED
        BY <3>1, <3>2
    <2>2. CASE Unlock(t)
      <3>1. Top(t).got > 0 /\ stack' = [stack EXCEPT ![t] = Got(@, Top(t).got - 1)]
        BY <2>2 DEF Unlock
      <3>2. Top(t).got - 1 \in 0..2 /\ Top(t).got - 1 <= Len(Locks(Top(t).op))
        BY <1>2, <3>1, LocksFacts
      <3> QED
        BY <3>1, <3>2
    <2> QED
      BY <2>1, <2>2
  <1> DEFINE s == Got(stack[t], k)
  <1>6. /\ s \in Seq(Frames) /\ Len(s) = n
        /\ \A i \in 1..n : s[i].op = stack[t][i].op
        /\ \A i \in 1..(n - 1) : s[i] = stack[t][i]
    BY <1>1, <1>2, <1>5, GotStack
  <1>7. stack' = [stack EXCEPT ![t] = s]
    BY <1>5
  <1>8. (thread' = "alive" => thread = "alive") /\ gone' = gone
    BY DEF Lock, Unlock, service
  <1> HIDE DEF s
  <1>9. \A i \in 1..Len(s) : i >= n =>
               s[i].op \notin {Destroy, Join} /\ (s[i].op \in Lifecycle => t = Main)
    <2> TAKE i \in 1..Len(s)
    <2> HAVE i >= n
    <2>1. i = n
      BY <1>2, <1>6
    <2>2. s[i].op = Top(t).op
      BY <1>2, <1>6, <2>1
    <2> QED
      BY <1>4, <2>2, LifecycleFacts
  <1>10. Rests(stack[t], s)
    BY <1>2, <1>6 DEF Rests
  <1>11. Top(t).op \notin {Destroy, Join}
    BY <1>4, LifecycleFacts
  <1> QED
    BY <1>1, <1>6, <1>7, <1>8, <1>9, <1>10, <1>11, GoesOn

\* How Main's own calls change its stack.
LEMMA MainEnding ==
    ASSUME Inv, Ending, ~gone, ~gone', NEW s \in Seq(Frames), stack' = [stack EXCEPT ![Main] = s],
           \A i \in 2..Len(s) : s[i].op # Destroy,
           Ends(s) => Ends(stack[Main]),
           Ends(s) /\ s[1].at = "joined" =>
             /\ Len(s) = 1 \/ (Len(s) = 2 /\ s[2].op = Join)
             /\ thread' = "alive" => Len(s) = 2 /\ s[2].at # "leave"
    PROVE  Ending'
  <1>1. /\ Main \in Thread /\ \A v \in User \ {Main} : v \in Thread \ {Main}
        /\ stack'[Main] = s /\ \A u \in Thread \ {Main} : stack'[u] = stack[u]
    BY ThreadAssumption DEF Thread, Inv, TypeOK
  <1>2. \A u \in Thread \ {Main} : \A i \in 1..Len(stack'[u]) : stack'[u][i].op \notin Lifecycle
    BY <1>1 DEF Ending
  <1>3. Ends(s) => \A v \in User \ {Main} : stack'[v] = <<>>
    BY <1>1 DEF Ending
  <1> QED
    BY <1>1, <1>2, <1>3 DEF Ending

\* Main's call of join() or of the destructor, and what is known then.
LEMMA MainTop ==
    ASSUME Inv, Ending, NEW t \in Thread, stack[t] # <<>>, Top(t).op \in {Destroy, Join}
    PROVE  /\ t = Main
           /\ Top(t).op = Destroy => Len(stack[t]) = 1 /\ Ends(stack[t])
           /\ ~gone \/ (Top(t).op = Destroy /\ Top(t).at = "leave")
  <1> DEFINE n == Len(stack[t])
  <1>1. /\ stack[t] \in Seq(Frames) /\ n \in Nat /\ n >= 1 /\ Top(t) = stack[t][n]
    BY TopFacts, FrontFacts DEF Inv
  <1>2. t = Main
    BY <1>1, LifecycleFacts DEF Ending
  <1>3. Top(t).op = Destroy => n = 1
    <2> SUFFICES ASSUME Top(t).op = Destroy PROVE n = 1
      OBVIOUS
    <2>1. n \notin 2..n
      BY <1>1, <1>2 DEF Ending
    <2>2. \A m \in Nat : m >= 1 /\ m \notin 2..m => m = 1
      OBVIOUS
    <2> HIDE DEF n
    <2> QED
      BY <1>1, <2>1, <2>2
  <1>4. Top(t).op = Destroy => Ends(stack[t])
    BY <1>1, <1>3 DEF Ends
  <1>5. gone => stack[t][1].op = Destroy /\ stack[t][1].at = "leave" /\ n = 1
    BY <1>2 DEF Ending
  <1> QED
    BY <1>1, <1>2, <1>3, <1>4, <1>5

LEMMA JoinsEnding ==
    ASSUME Inv, Ending, NEW t \in Thread, Joins(t)
    PROVE  Ending'
  <1> DEFINE n == Len(stack[t])
             s == At(stack[t], "leave")
  <1>1. /\ stack[t] # <<>> /\ Top(t).op.does = "join" /\ thread' = "none" /\ gone' = gone
        /\ stack' = [stack EXCEPT ![t] = s]
    BY DEF Joins, Is, Goes
  <1>2. /\ stack[t] \in Seq(Frames) /\ n \in Nat /\ n >= 1 /\ Top(t) = stack[t][n] /\ Top(t) = Last(stack[t])
        /\ Top(t).op \in Ops
    BY <1>1, TopFacts, FrontFacts DEF Inv
  <1>3. Top(t).op = Join
    BY <1>1, <1>2, LifecycleFacts
  <1>4. t = Main /\ ~gone
    BY <1>1, <1>3, MainTop, LifecycleFacts
  <1>5. /\ s \in Seq(Frames) /\ Len(s) = n /\ Rests(stack[t], s) /\ s[n].op = Join
    BY <1>1, <1>2, <1>3, AtRests DEF Stages
  <1> HIDE DEF s
  <1>6. \A i \in 1..n : s[i].op = stack[t][i].op
    <2> TAKE i \in 1..n
    <2>1. CASE i = n
      BY <1>2, <1>3, <1>5, <2>1
    <2>2. CASE i # n
      <3>1. i \in 1..(n - 1)
        BY <1>2, <2>2
      <3> QED
        BY <1>5, <3>1 DEF Rests
    <2> QED
      BY <2>1, <2>2
  <1>7. \A i \in 2..Len(s) : s[i].op # Destroy
    BY <1>2, <1>4, <1>5, <1>6 DEF Ending
  <1>8. ASSUME Ends(s) PROVE Ends(stack[t]) /\ n > 1 /\ s[1] = stack[t][1]
    <2>1. Ends(stack[t])
      BY <1>1, <1>2, <1>6, <1>8 DEF Ends
    <2>2. n # 1
      BY <1>5, <1>8, LifecycleFacts DEF Ends
    <2>3. \A m \in Nat : m >= 1 /\ m # 1 => m > 1 /\ 1 \in 1..(m - 1)
      OBVIOUS
    <2> HIDE DEF n
    <2>4. n > 1 /\ 1 \in 1..(n - 1)
      BY <1>2, <2>2, <2>3
    <2> QED
      BY <1>5, <2>1, <2>4 DEF Rests, n
  <1>9. ASSUME Ends(s), s[1].at = "joined" PROVE Len(s) = 2 /\ s[2].op = Join
    <2>1. n = 2
      BY <1>4, <1>8, <1>9 DEF Ending
    <2> QED
      BY <1>5, <2>1
  <1> HIDE DEF n
  <1> QED
    BY <1>1, <1>4, <1>5, <1>7, <1>8, <1>9, MainEnding

LEMMA DestroysEnding ==
    ASSUME Inv, Ending, NEW t \in Thread, Destroys(t)
    PROVE  Ending'
  <1>1. /\ stack[t] # <<>> /\ Top(t).op.does = "destroy" /\ Top(t).at # "leave" /\ thread' = thread
    BY DEF Destroys, Is
  <1>2. /\ stack[t] \in Seq(Frames) /\ Top(t) = Last(stack[t]) /\ Top(t).op \in Ops
    BY <1>1, TopFacts DEF Inv
  <1>3. Top(t).op = Destroy
    BY <1>1, <1>2, LifecycleFacts
  <1>4. t = Main /\ ~gone /\ Len(stack[t]) = 1 /\ Ends(stack[t]) /\ Top(t) = stack[t][1]
    <2>1. Top(t) = stack[t][Len(stack[t])]
      BY <1>1, <1>2, FrontFacts
    <2> QED
      BY <1>1, <1>3, <2>1, MainTop
  <1>5. \A v \in User \ {Main} : stack[v] = <<>>
    BY <1>4 DEF Ending
  <1>6. ASSUME NEW at \in Stages
        PROVE  /\ At(stack[t], at) \in Seq(Frames) /\ Len(At(stack[t], at)) = 1
               /\ At(stack[t], at)[1].op = Destroy /\ At(stack[t], at)[1].at = at
    BY <1>1, <1>2, <1>3, <1>4, AtRests
  <1>7. ASSUME NEW at \in Stages, NEW op \in Ops, op # Destroy, gone' = gone,
               stack' = [stack EXCEPT ![t] = Append(At(@, at), Frame(op))],
               at = "joined" => op = Join
        PROVE  Ending'
    <2> DEFINE a == At(stack[t], at)
               s == Append(a, Frame(op))
    <2>1. a \in Seq(Frames) /\ Len(a) = 1 /\ a[1].op = Destroy /\ a[1].at = at
      BY <1>6
    <2>2. stack' = [stack EXCEPT ![t] = s]
      BY <1>7
    <2> HIDE DEF a
    <2>3. /\ s \in Seq(Frames) /\ Len(s) = 2
          /\ s[2] = Frame(op) /\ s[1] = a[1]
      <3>1. /\ s \in Seq(Frames) /\ Len(s) = Len(a) + 1
            /\ s[Len(a) + 1] = Frame(op) /\ \A i \in 1..Len(a) : s[i] = a[i]
        BY <2>1, Pushed
      <3> HIDE DEF s
      <3>2. Len(a) + 1 = 2 /\ 1 \in 1..Len(a)
        BY <2>1
      <3> QED
        BY <3>1, <3>2
    <2>4. Frame(op).op = op /\ Frame(op).at # "leave"
      BY DEF Frame
    <2> HIDE DEF s
    <2>5. \A i \in 2..Len(s) : s[i].op # Destroy
      <3> TAKE i \in 2..Len(s)
      <3>1. i = 2
        BY <2>3
      <3> QED
        BY <1>7, <2>3, <2>4, <3>1
    <2>6. s[1].at = "joined" => op = Join
      BY <1>7, <2>1, <2>3
    <2> QED
      BY <1>4, <1>7, <2>2, <2>3, <2>4, <2>5, <2>6, MainEnding
  <1>8. CASE Is(t, "destroy", "enter") /\ stack' = [stack EXCEPT ![t] = Append(At(@, "joining"), Frame(Disconnect))] /\ gone' = gone
    <2>1. "joining" \in Stages /\ Disconnect \in Ops /\ Disconnect # Destroy
      BY OpsTyped DEF Stages, Disconnect, Destroy, Op
    <2> QED
      BY <1>7, <1>8, <2>1
  <1>9. CASE Is(t, "destroy", "joining") /\ stack' = [stack EXCEPT ![t] = Append(At(@, "joined"), Frame(Join))] /\ gone' = gone
    <2>1. "joined" \in Stages /\ Join \in Ops /\ Join # Destroy
      BY OpsTyped DEF Stages, Join, Destroy, Op
    <2> QED
      BY <1>7, <1>9, <2>1
  <1>10. CASE Is(t, "destroy", "joined") /\ gone' = TRUE /\ Goes(t, "leave")
    <2> DEFINE s == At(stack[t], "leave")
    <2>1. s \in Seq(Frames) /\ Len(s) = 1 /\ s[1].op = Destroy /\ s[1].at = "leave"
      BY <1>6 DEF Stages
    <2>2. stack' = [stack EXCEPT ![t] = s]
      BY <1>10 DEF Goes
    <2> HIDE DEF s
    <2>3. /\ Main \in Thread /\ \A v \in User \ {Main} : v \in Thread \ {Main}
          /\ stack'[Main] = s /\ \A u \in Thread \ {Main} : stack'[u] = stack[u]
      BY <1>4, <2>1, <2>2, ThreadAssumption DEF Thread, Inv, TypeOK
    <2>4. thread # "alive"
      <3>1. stack[Main][1].at = "joined"
        BY <1>4, <1>10 DEF Is
      <3> QED
        BY <1>4, <3>1 DEF Ending
    <2>5. \A u \in Thread \ {Main} : \A i \in 1..Len(stack'[u]) : stack'[u][i].op \notin Lifecycle
      BY <2>3 DEF Ending
    <2>6. \A v \in User \ {Main} : stack'[v] = <<>>
      BY <1>5, <2>3
    <2>7. \A i \in 2..Len(s) : s[i].op # Destroy
      BY <2>1
    <2>8. thread' # "alive" /\ s[1].at # "joined"
      BY <1>1, <2>1, <2>4
    <2> HIDE DEF s
    <2> QED
      BY <2>1, <2>3, <2>5, <2>6, <2>7, <2>8 DEF Ending
  <1> QED
    BY <1>8, <1>9, <1>10 DEF Destroys

LEMMA ReturnEnding ==
    ASSUME Inv, Ending, NEW t \in Thread, Return(t)
    PROVE  Ending'
  <1> DEFINE n == Len(stack[t])
             s == Front(stack[t])
  <1>1. /\ stack[t] # <<>> /\ Top(t).at = "leave" /\ thread' = thread /\ gone' = gone
        /\ stack' = [stack EXCEPT ![t] = s]
    BY DEF Return, service
  <1>2. /\ stack[t] \in Seq(Frames) /\ n \in Nat /\ n >= 1 /\ Top(t) = stack[t][n]
        /\ s \in Seq(Frames) /\ Len(s) = n - 1 /\ \A i \in 1..Len(s) : s[i] = stack[t][i]
    BY <1>1, TopFacts, FrontFacts DEF Inv
  <1>3. Len(s) \in Nat
    BY <1>2
  <1> HIDE DEF s
  <1>4. CASE Top(t).op \notin {Destroy, Join}
    <2>1. \A i \in 1..Len(s) : ~(i >= n)
      BY <1>2
    <2>2. Rests(stack[t], s)
      BY <1>2 DEF Rests
    <2> HIDE DEF n
    <2>3. \A i \in 1..Len(s) : i >= Len(stack[t]) =>
               s[i].op \notin {Destroy, Join} /\ (s[i].op \in Lifecycle => t = Main)
      BY <2>1 DEF n
    <2> QED
      BY <1>1, <1>2, <1>4, <2>2, <2>3, GoesOn
  <1>5. CASE Top(t).op = Destroy
    <2>1. t = Main /\ n = 1
      BY <1>1, <1>5, MainTop
    <2>2. /\ Main \in Thread /\ \A v \in User \ {Main} : v \in Thread \ {Main}
          /\ stack'[Main] = s /\ \A u \in Thread \ {Main} : stack'[u] = stack[u]
      BY <1>1, <2>1, ThreadAssumption DEF Thread, Inv, TypeOK
    <2>3. s = <<>> /\ Len(s) = 0
      BY <1>2, <2>1
    <2>4. \A u \in Thread \ {Main} : \A i \in 1..Len(stack'[u]) : stack'[u][i].op \notin Lifecycle
      BY <2>2 DEF Ending
    <2>5. gone => \A v \in User \ {Main} : stack'[v] = <<>>
      BY <2>2 DEF Ending
    <2>6. ~Ends(s) /\ \A i \in 2..Len(s) : s[i].op # Destroy
      BY <2>3 DEF Ends
    <2>7. gone' => thread' # "alive"
      BY <1>1 DEF Ending
    <2> QED
      BY <1>1, <2>2, <2>3, <2>4, <2>5, <2>6, <2>7 DEF Ending
  <1>6. CASE Top(t).op = Join
    <2>1. t = Main /\ ~gone
      BY <1>1, <1>6, MainTop, LifecycleFacts
    <2>2. \A i \in 2..Len(s) : s[i].op # Destroy
      <3> TAKE i \in 2..Len(s)
      <3>1. i \in 2..n /\ i \in 1..Len(s)
        BY <1>2
      <3> QED
        BY <1>2, <2>1, <3>1 DEF Ending
    <2>3. ASSUME Ends(s) PROVE Ends(stack[t]) /\ s[1] = stack[t][1] /\ n > 1
      <3>1. 1 \in 1..Len(s) /\ n > 1
        BY <1>2, <2>3 DEF Ends
      <3>2. s[1] = stack[t][1]
        BY <1>2, <3>1
      <3> QED
        BY <1>1, <2>3, <3>1, <3>2 DEF Ends
    <2>4. ASSUME Ends(s), s[1].at = "joined" PROVE Len(s) = 1 /\ thread # "alive"
      <3>1. n = 2
        BY <2>1, <2>3, <2>4 DEF Ending
      <3>2. stack[t][2].at = "leave"
        BY <1>1, <1>2, <3>1
      <3> HIDE DEF n
      <3>3. thread # "alive"
        BY <2>1, <2>3, <2>4, <3>2 DEF Ending
      <3> QED
        BY <1>2, <3>1, <3>3
    <2> HIDE DEF n
    <2> QED
      BY <1>1, <1>2, <2>1, <2>2, <2>3, <2>4, MainEnding
  <1> QED
    BY <1>4, <1>5, <1>6

LEMMA UserCallsEnding ==
    ASSUME Inv, Ending, NEW t \in Thread, UserCalls(t)
    PROVE  Ending'
  <1>1. PICK op \in Anywhere \union (IF t = Main THEN Lifecycle ELSE {}) :
          (op = Destroy => \A v \in User : stack[v] = <<>>) /\ Calls(t, op)
    BY DEF UserCalls
  <1>2. /\ t \in User /\ stack[t] = <<>> /\ ~Destroyed /\ thread' = thread /\ gone' = gone
        /\ stack \in [Thread -> Seq(Frames)] /\ stack[Main] \in Seq(Frames) /\ stack[t] \in Seq(Frames)
        /\ Main \in Thread /\ \A v \in User : v \in Thread
    BY ThreadAssumption DEF UserCalls, service, Inv, TypeOK, Thread
  <1>3. ~gone /\ ~Ends(stack[Main])
    <2>1. stack[Main] # <<>> => 1 \in DOMAIN stack[Main]
      BY <1>2
    <2> QED
      BY <1>2, <2>1 DEF Destroyed, Ends
  <1>4. op \in Ops /\ (op \in Lifecycle => t = Main)
    BY <1>1, OpsTyped, LifecycleFacts
  <1> DEFINE s == Append(stack[t], Frame(op))
  <1>5. /\ s \in Seq(Frames) /\ Len(s) = 1 /\ s[1].op = op /\ s[1].at = "enter"
        /\ stack' = [stack EXCEPT ![t] = s]
    <2>1. Len(stack[t]) = 0
      BY <1>2
    <2>2. /\ s \in Seq(Frames) /\ Len(s) = Len(stack[t]) + 1 /\ s[Len(stack[t]) + 1] = Frame(op)
      BY <1>2, <1>4, Pushed
    <2> QED
      BY <1>1, <2>1, <2>2 DEF Frame, Calls
  <1> HIDE DEF s
  <1>6. stack'[t] = s /\ \A u \in Thread \ {t} : stack'[u] = stack[u]
    BY <1>2, <1>5
  <1>7. \A u \in Thread \ {Main} : \A i \in 1..Len(stack'[u]) : stack'[u][i].op \notin Lifecycle
    <2> TAKE u \in Thread \ {Main}
    <2>1. CASE u = t
      <3> TAKE i \in 1..Len(stack'[u])
      <3>1. \A j \in 1..1 : j = 1
        OBVIOUS
      <3>2. i \in 1..1
        BY <1>5, <1>6, <2>1
      <3>3. i = 1
        BY <3>1, <3>2
      <3> QED
        BY <1>4, <1>5, <1>6, <2>1, <3>3
    <2>2. CASE u # t
      BY <1>6, <2>2 DEF Ending
    <2> QED
      BY <2>1, <2>2
  <1>8. CASE t = Main
    <2>1. Ends(s) => \A v \in User \ {Main} : stack'[v] = <<>>
      BY <1>1, <1>2, <1>5, <1>6, <1>8 DEF Ends
    <2>2. \A i \in 2..Len(s) : s[i].op # Destroy
      BY <1>5
    <2> QED
      BY <1>2, <1>3, <1>5, <1>6, <1>7, <1>8, <2>1, <2>2 DEF Ending
  <1>9. CASE t # Main
    <2>1. stack'[Main] = stack[Main]
      BY <1>2, <1>6, <1>9
    <2> QED
      BY <1>2, <1>3, <1>7, <2>1 DEF Ending
  <1> QED
    BY <1>8, <1>9

LEMMA ConnectsEnding ==
    ASSUME Inv, Ending, NEW t \in Thread, Connects(t)
    PROVE  Ending'
  <1> DEFINE n == Len(stack[t])
  <1>1. stack[t] # <<>> /\ Top(t).op.does = "connect"
    BY DEF Connects, Is
  <1>2. /\ stack[t] \in Seq(Frames) /\ n \in Nat /\ n >= 1 /\ Top(t) = stack[t][n] /\ Top(t) = Last(stack[t])
        /\ Top(t).op \in Ops
    BY <1>1, TopFacts, FrontFacts DEF Inv
  <1>3. Top(t).op \in Lifecycle /\ Top(t).op \notin {Destroy, Join}
    BY <1>1, <1>2, LifecycleFacts DEF Lifecycle, Destroy, Join, Op
  <1>4. t = Main
    BY <1>1, <1>3, OnlyMain
  <1>5. (thread' = "alive" => thread = "alive") /\ gone' = gone
    BY DEF Connects, service
  <1>6. CASE Goes(t, "leave")
    <2>1. "leave" \in Stages
      BY DEF Stages
    <2> QED
      BY <1>1, <1>3, <1>5, <1>6, <2>1, StageEnding
  <1>7. CASE stack' = [stack EXCEPT ![t] = Append(At(@, "connected"), Frame(Tell("connection")))]
    <2> DEFINE a == At(stack[t], "connected")
               s == Append(a, Frame(Tell("connection")))
    <2>1. /\ a \in Seq(Frames) /\ Len(a) = n /\ Rests(stack[t], a) /\ a[n].op = Top(t).op
      BY <1>1, <1>2, AtRests DEF Stages
    <2>2. Tell("connection") \in Ops /\ Tell("connection") \notin Lifecycle
      BY OpsTyped, LifecycleFacts DEF Kind
    <2> HIDE DEF a
    <2>3. /\ s \in Seq(Frames) /\ Len(s) = Len(a) + 1
          /\ s[Len(a) + 1] = Frame(Tell("connection")) /\ \A i \in 1..Len(a) : s[i] = a[i]
      BY <2>1, <2>2, Pushed
    <2>4. stack' = [stack EXCEPT ![t] = s]
      BY <1>7 DEF a
    <2> HIDE DEF s
    <2>5. Rests(stack[t], s)
      BY <1>2, <2>1, <2>3 DEF Rests
    <2>6. \A i \in 1..Len(s) : i >= n =>
               s[i].op \notin {Destroy, Join} /\ (s[i].op \in Lifecycle => t = Main)
      <3> TAKE i \in 1..Len(s)
      <3> HAVE i >= n
      <3>1. i = n \/ i = n + 1
        BY <1>2, <2>1, <2>3
      <3>2. CASE i = n
        <4>1. i \in 1..Len(a)
          BY <1>2, <2>1, <3>2
        <4>2. s[i].op = Top(t).op
          BY <2>1, <2>3, <3>2, <4>1
        <4> QED
          BY <1>3, <1>4, <4>2
      <3>3. CASE i = n + 1
        <4>1. s[i].op = Tell("connection")
          BY <2>1, <2>3, <3>3 DEF Frame
        <4> QED
          BY <2>2, <4>1, LifecycleFacts
      <3> QED
        BY <3>1, <3>2, <3>3
    <2> QED
      BY <1>1, <1>3, <1>5, <2>3, <2>4, <2>5, <2>6, GoesOn
  <1>8. CASE stack' = [stack EXCEPT ![t] = Append(Front(@), Frame(Run))]
    <2> DEFINE a == Front(stack[t])
               s == Append(a, Frame(Run))
    <2>1. /\ a \in Seq(Frames) /\ Len(a) = n - 1 /\ \A i \in 1..Len(a) : a[i] = stack[t][i]
      BY <1>1, <1>2, FrontFacts
    <2>2. Run \in Ops
      BY OpsTyped
    <2> HIDE DEF a
    <2>3. /\ s \in Seq(Frames) /\ Len(s) = Len(a) + 1
          /\ s[Len(a) + 1] = Frame(Run) /\ \A i \in 1..Len(a) : s[i] = a[i]
      BY <2>1, <2>2, Pushed
    <2>4. stack' = [stack EXCEPT ![t] = s]
      BY <1>8 DEF a
    <2> HIDE DEF s
    <2>5. Rests(stack[t], s)
      BY <1>2, <2>1, <2>3 DEF Rests
    <2>6. \A i \in 1..Len(s) : i >= n =>
               s[i].op \notin {Destroy, Join} /\ (s[i].op \in Lifecycle => t = Main)
      <3> TAKE i \in 1..Len(s)
      <3> HAVE i >= n
      <3>1. i = Len(a) + 1
        BY <1>2, <2>1, <2>3
      <3>2. s[i].op = Run
        BY <2>3, <3>1 DEF Frame
      <3> QED
        BY <1>4, <3>2, LifecycleFacts
    <2> QED
      BY <1>1, <1>3, <1>5, <2>3, <2>4, <2>5, <2>6, GoesOn
  <1> QED
    BY <1>6, <1>7, <1>8 DEF Connects

LEMMA StartsEnding ==
    ASSUME Inv, Ending, NEW t \in Thread, Starts(t)
    PROVE  Ending'
  <1> DEFINE n == Len(stack[t])
             s == At(stack[t], "waiting")
             b == <<Frame(SyncRun)>>
  <1>1. stack[t] # <<>> /\ Top(t).op.does = "run" /\ gone' = gone
    BY DEF Starts, Is
  <1>2. /\ stack[t] \in Seq(Frames) /\ n \in Nat /\ n >= 1 /\ Top(t) = stack[t][n] /\ Top(t) = Last(stack[t])
        /\ Top(t).op \in Ops
    BY <1>1, TopFacts, FrontFacts DEF Inv
  <1>3. Top(t).op \in Lifecycle /\ Top(t).op \notin {Destroy, Join}
    BY <1>1, <1>2, LifecycleFacts DEF Lifecycle, Destroy, Join, Op
  <1>4. t = Main /\ t # Net /\ Net \in Thread /\ \A v \in User \ {Main} : v \in Thread \ {Main, Net}
    BY <1>1, <1>3, OnlyMain, ThreadAssumption DEF Thread
  <1>5. /\ s \in Seq(Frames) /\ Len(s) = n /\ Rests(stack[t], s) /\ s[n].op = Top(t).op
    BY <1>1, <1>2, AtRests DEF Stages
  <1>6. Len(b) = 1 /\ b[1].op = SyncRun
    BY DEF Frame
  <1> HIDE DEF s, b
  <1>7. /\ stack'[t] = s /\ stack'[Net] = b
        /\ \A u \in Thread \ {t, Net} : stack'[u] = stack[u]
    BY <1>4 DEF Starts, Inv, TypeOK, s, b
  <1>8. \A i \in 1..n : s[i].op = stack[t][i].op /\ (i # n => s[i] = stack[t][i])
    <2> TAKE i \in 1..n
    <2>1. CASE i = n
      BY <1>2, <1>5, <2>1
    <2>2. CASE i # n
      <3>1. i \in 1..(n - 1)
        BY <1>2, <2>2
      <3> QED
        BY <1>5, <3>1, <2>2 DEF Rests
    <2> QED
      BY <2>1, <2>2
  <1>9. \A i \in 2..Len(s) : s[i].op # Destroy
    <2> TAKE i \in 2..Len(s)
    <2>1. i \in 1..n /\ i \in 2..n
      BY <1>2, <1>5
    <2> QED
      BY <1>4, <1>8, <2>1 DEF Ending
  <1>10. \A i \in 1..Len(b) : b[i].op \notin Lifecycle
    <2> TAKE i \in 1..Len(b)
    <2>1. \A j \in 1..1 : j = 1
      OBVIOUS
    <2>2. i = 1
      BY <1>6, <2>1
    <2> QED
      BY <1>6, <2>2, LifecycleFacts
  <1>11. 1 \in 1..n
    BY <1>2
  <1>12. ~gone /\ ~(Ends(stack[t]) /\ stack[t][1].at = "joined")
    <2>1. gone => n = 1 /\ stack[t][1].op = Destroy
      BY <1>1, <1>4 DEF Ending
    <2>2. ~gone
      BY <1>2, <1>3, <2>1
    <2>3. ASSUME Ends(stack[t]), stack[t][1].at = "joined" PROVE FALSE
      <3>1. n = 1 \/ (n = 2 /\ stack[t][2].op = Join)
        BY <1>4, <2>3 DEF Ending
      <3> QED
        BY <1>2, <1>3, <2>3, <3>1 DEF Ends
    <2> QED
      BY <2>2, <2>3
  <1>13. ASSUME Ends(s) PROVE Ends(stack[t]) /\ s[1].at # "joined"
    <2>1. Ends(stack[t])
      BY <1>1, <1>8, <1>11, <1>13 DEF Ends
    <2>2. n # 1
      BY <1>2, <1>3, <2>1 DEF Ends
    <2> QED
      BY <1>8, <1>11, <1>12, <2>1, <2>2
  <1>14. \A u \in Thread \ {Main} : \A i \in 1..Len(stack'[u]) : stack'[u][i].op \notin Lifecycle
    BY <1>4, <1>7, <1>10 DEF Ending
  <1>15. Ends(s) => \A v \in User \ {Main} : stack'[v] = <<>>
    BY <1>4, <1>7, <1>13 DEF Ending
  <1> HIDE DEF n
  <1> QED
    BY <1>1, <1>4, <1>7, <1>9, <1>12, <1>13, <1>14, <1>15 DEF Ending

LEMMA NetEnding ==
    ASSUME Inv, Ending, Handles \/ NetStep
    PROVE  Ending'
  <1>1. Net \in Thread /\ Net # Main /\ stack[Net] # <<>> /\ Top(Net).op.does = "sync_run"
    BY ThreadAssumption DEF Handles, NetStep, Up, Reset, PollEnds, Down, Is, Thread
  <1>2. Top(Net).op \in Ops
    BY <1>1, TopFacts DEF Inv
  <1>3. Top(Net).op \notin {Destroy, Join}
    BY <1>1, <1>2, LifecycleFacts DEF Lifecycle
  <1>4. (thread' = "alive" => thread = "alive") /\ gone' = gone
    BY DEF Handles, NetStep, Up, Reset, PollEnds, Down, service
  <1>5. CASE Handles
    <2>1. PICK kind \in Kind : Calls(Net, Tell(kind))
      BY <1>5 DEF Handles
    <2>2. Tell(kind) \in Ops /\ Tell(kind) \notin Lifecycle
      BY OpsTyped, LifecycleFacts
    <2> QED
      BY <1>1, <1>3, <1>4, <2>1, <2>2, CallEnding
  <1>6. CASE Up \/ Reset \/ PollEnds
    <2>1. PICK at \in Stages : Goes(Net, at)
      <3>1. Goes(Net, "up") \/ Goes(Net, "posted") \/ Goes(Net, "polling") \/ Goes(Net, "down")
        BY <1>6 DEF Up, Reset, PollEnds
      <3>2. {"up", "posted", "polling", "down"} \subseteq Stages
        BY DEF Stages
      <3> QED
        BY <3>1, <3>2
    <2> QED
      BY <1>1, <1>3, <1>4, <2>1, StageEnding
  <1>7. CASE Down
    <2>1. stack'[Net] = <<>> /\ \A u \in Thread \ {Net} : stack'[u] = stack[u]
      BY <1>1, <1>7 DEF Down, Inv, TypeOK
    <2>2. Main \in Thread /\ stack'[Main] = stack[Main] /\ \A v \in User \ {Main} : v \in Thread \ {Net}
      BY <1>1, <2>1, ThreadAssumption DEF Thread
    <2>3. \A u \in Thread \ {Main} : \A i \in 1..Len(stack'[u]) : stack'[u][i].op \notin Lifecycle
      <3>1. Len(<<>>) = 0
        OBVIOUS
      <3> QED
        BY <2>1, <3>1 DEF Ending
    <2>4. Ends(stack[Main]) \/ gone => \A v \in User \ {Main} : stack'[v] = <<>>
      BY <2>1, <2>2 DEF Ending
    <2>5. thread' # "alive"
      BY <1>7 DEF Down
    <2> QED
      BY <1>4, <2>2, <2>3, <2>4, <2>5 DEF Ending
  <1> QED
    BY <1>5, <1>6, <1>7 DEF NetStep

LEMMA EndingHolds == Spec => []Ending
  <1>1. Init => Ending
    <2> SUFFICES ASSUME Init PROVE Ending
      OBVIOUS
    <2>1. /\ \A t \in Thread : stack[t] = <<>>
          /\ Main \in Thread /\ \A v \in User : v \in Thread
          /\ ~gone
      BY ThreadAssumption DEF Init, Thread
    <2>2. Len(<<>>) = 0 /\ ~Ends(<<>>)
      BY DEF Ends
    <2> QED
      BY <2>1, <2>2 DEF Ending
  <1>2. Inv /\ Ending /\ [Next]_vars => Ending'
    <2> SUFFICES ASSUME Inv, Ending, [Next]_vars PROVE Ending'
      OBVIOUS
    <2>1. CASE UNCHANGED vars
      BY <2>1 DEF vars, service, Ending
    <2>2. CASE Handles
      BY <2>2, NetEnding
    <2>3. ASSUME NEW t \in Thread, UserCalls(t) \/ CallsBack(t) \/ TellsLoss(t) \/ Step(t)
          PROVE  Ending'
      <3>1. CASE UserCalls(t)
        BY <3>1, UserCallsEnding
      <3>2. CASE CallsBack(t) \/ TellsLoss(t) \/ Works(t) \/ Stop(t) \/ Disconnected(t) \/ Started(t)
        BY <3>2, InCallEnding
      <3>3. CASE Lock(t) \/ Unlock(t)
        BY <3>3, MutexEnding
      <3>4. CASE Return(t)
        BY <3>4, ReturnEnding
      <3>5. CASE Joins(t) \/ Destroys(t) \/ Starts(t) \/ Connects(t)
        BY <3>5, JoinsEnding, DestroysEnding, StartsEnding, ConnectsEnding
      <3>6. CASE NetStep
        BY <3>6, NetEnding
      <3> QED
        BY <2>3, <3>1, <3>2, <3>3, <3>4, <3>5, <3>6 DEF Step, MainStep
    <2> QED
      BY <2>1, <2>2, <2>3 DEF Next
  <1> QED
    BY <1>1, <1>2, Invariance, PTL DEF Spec

\* When ~basic_peer_manager has returned no network thread runs and no mutex is locked:
\* nobody is left in a call of the instance, whatever users and listeners called
\* before, one of them connect() or run() (its disconnect() and join()).  The members of
\* basic_network are destroyed before, and not covered (see MembersOutliveTheirUse).
THEOREM InstanceOutlives == Spec => []NothingOutlivesIt
  <1>1. ASSUME Inv, Ending PROVE NothingOutlivesIt
    <2> SUFFICES ASSUME gone PROVE stack[Net] = <<>> /\ \A m \in Mutex : owner[m] = Free
      BY DEF NothingOutlivesIt
    <2>1. stack[Net] = <<>>
      BY <1>1 DEF Inv, TypeOK, Ending
    <2>2. Main \in Thread /\ stack[Main] \in Seq(Frames)
      BY <1>1, ThreadAssumption DEF Inv, TypeOK, Thread
    <2>3. Mine(<<>>) = {}
      BY DEF Mine
    <2>4. Mine(stack[Main]) = {}
      <3>1. CASE stack[Main] = <<>>
        BY <2>3, <3>1
      <3>2. CASE stack[Main] # <<>>
        <4>1. Len(stack[Main]) = 1 /\ stack[Main][1].op = Destroy
          BY <1>1, <3>2 DEF Ending
        <4>2. 1 \in 1..Len(stack[Main])
          BY <4>1
        <4>3. stack[Main][1] \in Frames
          BY <2>2, <4>2
        <4>4. Locks(Destroy) = <<>>
          BY OpsTyped, OpFacts DEF Destroy, Op, Locking
        <4>5. stack[Main][1].got \in 0..2 /\ stack[Main][1].got <= 0
          BY <4>1, <4>3, <4>4 DEF Frames
        <4>6. \A i \in 1..Len(stack[Main]) : \A k \in 1..stack[Main][i].got : FALSE
          <5> TAKE i \in 1..Len(stack[Main])
          <5>1. \A j \in 1..1 : j = 1
            OBVIOUS
          <5>2. i = 1
            BY <4>1, <5>1
          <5> QED
            BY <4>5, <5>2
        <4> QED
          BY <4>6 DEF Mine
      <3> QED
        BY <3>1, <3>2
    <2>5. \A t \in Thread : Mine(stack[t]) = {}
      <3>1. \A v \in User \ {Main} : stack[v] = <<>>
        BY <1>1 DEF Ending
      <3> QED
        BY <2>1, <2>3, <2>4, <3>1 DEF Thread
    <2>6. ASSUME NEW m \in Mutex PROVE owner[m] = Free
      <3>1. owner[m] \in Thread \union {Free}
        BY <1>1 DEF Inv, TypeOK
      <3>2. owner[m] \notin Thread
        BY <1>1, <2>5 DEF Inv, Owners
      <3> QED
        BY <3>1, <3>2
    <2> QED
      BY <2>1, <2>6
  <1> QED
    BY <1>1, Invariance, EndingHolds, PTL

=============================================================================
