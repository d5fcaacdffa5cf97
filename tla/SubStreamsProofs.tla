-------------------------- MODULE SubStreamsProofs --------------------------
(***************************************************************************)
(* SubStreamsInv is inductive, for every number of threads and events and  *)
(* for every capacity of the buffers: what the parts of it need from each  *)
(* other, and the steps of the monitor and of the program's start.         *)
(***************************************************************************)
EXTENDS SubStreams, TLAPS

(* Threads and sub-buffers are numbered alike. *)
LEMMA Sets ==
    /\ Threads = Numbers /\ 0 \in Numbers /\ Budget \in Nat /\ Cap \in Nat
    /\ \A n \in Numbers : n \in Nat /\ n <= Budget
    /\ \A n \in Nat : n <= Budget => n \in Numbers
BY SizesAssumption DEF Threads, Numbers

(* The parts of a buffer have their types. *)
LEMMA BufferTypes ==
    ASSUME ShapeInv, NEW n \in Numbers
    PROVE  /\ shm[n] \in Buffers /\ shm[n].ring \in Seq(BOOLEAN) /\ Len(shm[n].ring) \in Nat
           /\ shm[n].destroyed \in BOOLEAN /\ shm[n].attached \in BOOLEAN
           /\ shm[n].registered \in BOOLEAN
BY DEF ShapeInv, Buffers

(* The threads in a step of the monitor. *)
LEMMA SourceKept ==
    ASSUME SourceInv, UNCHANGED <<srcVars, subbuffers_no, overlap>>,
           \A n \in Numbers : shm'[n].destroyed = shm[n].destroyed
    PROVE  SourceInv'
<1> USE Sets DEF srcVars, locals, ids
<1>1. CASE src # "alive" BY <1>1 DEF SourceInv
<1>2. CASE src = "alive"
  <2>1. InInit' = InInit /\ Creators' = Creators BY DEF InInit, Creators
  <2> QED BY <1>2, <2>1 DEF SourceInv, ThreadInv
<1> QED BY <1>1, <1>2

(* The streams in a step of the source. *)
LEMMA StreamsKept ==
    ASSUME ShapeInv, StreamsInv, UNCHANGED monVars, subbuffers_no' \in {subbuffers_no, subbuffers_no + 1},
           overlap => overlap', \A n \in bufs : n # 0 => n \in bufs'
    PROVE  StreamsInv'
<1> USE DEF monVars
<1>1. substreams_no <= subbuffers_no' BY Sets DEF StreamsInv, ShapeInv
<1>2. MonitorOver' = MonitorOver BY DEF MonitorOver
<1> QED BY <1>1, <1>2 DEF StreamsInv

(* The loop of shamon_is_ready in a step of the source. *)
LEMMA ReadyKept ==
    ASSUME ShapeInv, ReadyInv, UNCHANGED monVars, \A n \in Numbers : Dead(n) => Dead(n)',
           shm[0].destroyed => /\ subbuffers_no' = subbuffers_no /\ shm'[0].destroyed
                               /\ bufs' \cup ctrls' \subseteq bufs \cup ctrls,
           src = "crashed" => src' = "crashed",
           StreamsInv
    PROVE  ReadyInv'
<1> USE DEF monVars
<1>0. substreams_no \in Nat /\ chk \in Nat /\ subbuffers_no \in Nat /\ subbuffers_no <= Budget
      /\ substreams_no <= subbuffers_no
  BY Sets DEF ShapeInv, StreamsInv
<1>1. ASSUME mpc \in {"check", "subs", "size"}
      PROVE  (/\ chk \in 1..(substreams_no + 1)
              /\ \A n \in 0..(chk - 2) : Dead(n) /\ pend[n] = 0
              /\ mpc # "check" => Dead(chk - 1)
              /\ mpc = "size" \/ chk > 1 => subbuffers_no = substreams_no)'
  <2>1. /\ chk \in 1..(substreams_no + 1)
        /\ \A n \in 0..(chk - 2) : Dead(n) /\ pend[n] = 0
        /\ mpc # "check" => Dead(chk - 1)
        /\ mpc = "size" \/ chk > 1 => subbuffers_no = substreams_no
    BY <1>1 DEF ReadyInv
  <2>2. \A n \in 0..(chk - 1) : n \in Numbers BY <1>0, <2>1, Sets
  <2>3. \A n \in 0..(chk - 2) : Dead(n)'
    <3>1. \A n \in 0..(chk - 2) : n \in 0..(chk - 1) BY <1>0
    <3> QED BY <2>1, <2>2, <3>1
  <2>4. mpc # "check" => Dead(chk - 1)'
    <3>1. chk - 1 \in 0..(chk - 1) BY <2>1, <1>0
    <3> QED BY <2>1, <2>2, <3>1
  <2>5. mpc = "size" \/ chk > 1 => subbuffers_no' = substreams_no
    <3>1. CASE chk > 1
      <4>1. 0 \in 0..(chk - 2) BY <1>0, <3>1
      <4> QED BY <2>1, <3>1, <4>1 DEF Dead
    <3>2. CASE mpc = "size" /\ ~(chk > 1)
      <4>1. chk - 1 = 0 BY <2>1, <3>2, <1>0
      <4> QED BY <2>1, <3>2, <4>1 DEF Dead
    <3> QED BY <3>1, <3>2
  <2> QED BY <2>1, <2>3, <2>4, <2>5
<1>2. ASSUME mpc = "destroy"
      PROVE  (/\ \A n \in 0..substreams_no : Dead(n) /\ pend[n] = 0
              /\ subbuffers_no = substreams_no)'
  <2>1. /\ \A n \in 0..substreams_no : Dead(n) /\ pend[n] = 0
        /\ subbuffers_no = substreams_no
    BY <1>2 DEF ReadyInv
  <2>2. \A n \in 0..substreams_no : n \in Numbers BY <1>0, Sets
  <2>3. 0 \in 0..substreams_no BY <1>0
  <2>4. shm[0].destroyed BY <2>1, <2>3 DEF Dead
  <2> QED BY <2>1, <2>2, <2>4
<1>3. ASSUME mpc = "done"
      PROVE  (shm[0].destroyed /\ (src # "crashed" => bufs \cup ctrls = {}))'
  BY <1>3 DEF ReadyInv
<1> QED BY <1>1, <1>2, <1>3 DEF ReadyInv

-----------------------------------------------------------------------------
(* The monitor. *)

(* The types in a step of the monitor. *)
LEMMA MonitorShape ==
    ASSUME ShapeInv, UNCHANGED <<srcVars, subbuffers_no, history>>,
           bufs' \subseteq Numbers, ctrls' \subseteq Numbers,
           shm' \in [Numbers -> Buffers], \A n \in Numbers : Len(shm'[n].ring) <= Cap,
           mpc' \in {"open", "openctrl", "register", "attach", "check", "subs", "size", "next",
                     "process", "destroy", "done", "failed", "hollow"},
           cur' \in Numbers, streams' \in Seq(Numbers), substreams_no' \in Nat,
           pend' \in [Numbers -> Nat], chk' \in Nat
    PROVE  ShapeInv'
BY Zenon DEF ShapeInv, Spent, srcVars, locals, ids, history

(* The names in a step of the monitor that leaves them alone. *)
LEMMA MonitorNames ==
    ASSUME NameInv, UNCHANGED <<srcVars, nameVars, subbuffers_no, overlap>>,
           shm'[0].destroyed = shm[0].destroyed,
           MonitorOver => MonitorOver', mpc = "hollow" => mpc' = "hollow"
    PROVE  NameInv'
<1> USE DEF srcVars, locals, ids, nameVars
<1>1. Creators' = Creators BY DEF Creators
<1> QED BY <1>1 DEF NameInv

(* What the source knows of the kinds in a step of the monitor that is not *)
(* about to open the top buffer.                                           *)
LEMMA MonitorKinds ==
    ASSUME KindInv, UNCHANGED <<srcVars, hasty>>,
           shm'[0].attached => shm[0].attached, shm'[0].registered = shm[0].registered,
           KindsKnown', ~(mpc = "register" /\ cur = 0),
           mpc' \notin {"open", "openctrl", "attach"} \/ cur' # 0, mpc' # "hollow"
    PROVE  KindInv'
<1> USE DEF srcVars, locals, ids
<1>1. InInit' = InInit BY DEF InInit
<1>2. shm'[0].attached => shm[0].registered BY DEF KindInv, Registers
<1>3. ControlWritten' BY DEF ControlWritten
<1>4. src = "alive" /\ ~hasty /\ tpc[0] = "sleep" => shm[0].registered
  BY DEF KindInv, Registers
<1> QED BY <1>1, <1>2, <1>3, <1>4 DEF KindInv, Registers

(* The name is there, or the wait was in vain. *)
LEMMA OpenBufferStep ==
    ASSUME SubStreamsInv, OpenBuffer
    PROVE  SubStreamsInv'
<1>i. ShapeInv /\ SourceInv /\ NameInv /\ StreamsInv /\ KindInv /\ ReadyInv
  BY DEF SubStreamsInv
<1> USE DEF OpenBuffer
<1>1. ShapeInv' BY <1>i DEF ShapeInv, Spent, srcVars, locals, ids, nameVars, history
<1>2. SourceInv' BY <1>i, SourceKept DEF history
<1>3. NameInv' BY <1>i, MonitorNames DEF MonitorOver, history
<1>4. StreamsInv'
  <2>1. MonitorOver' = MonitorOver BY DEF MonitorOver
  <2> QED BY <1>i, <2>1 DEF StreamsInv, nameVars, history
<1>5. KindInv'
  <2>1. InInit' = InInit BY DEF InInit, srcVars, locals
  <2>2. KindsKnown' BY <1>i DEF KindInv, KindsKnown, history
  <2>3. cur = 0 /\ src = "alive" => ~(tpc[0] \in {"ctrl", "buf"} /\ child[0] = 0)
    BY <1>i DEF NameInv
  <2> QED BY <1>i, <2>1, <2>2, <2>3 DEF KindInv, Registers, ControlWritten, srcVars, locals,
             history
<1>6. ReadyInv' BY DEF ReadyInv
<1> QED BY <1>1, <1>2, <1>3, <1>4, <1>5, <1>6, Zenon DEF SubStreamsInv

(* No buffer of that name: only a sub-buffer announced too early. *)
LEMMA GiveUpStep ==
    ASSUME SubStreamsInv, GiveUp
    PROVE  SubStreamsInv'
<1>i. ShapeInv /\ SourceInv /\ NameInv /\ StreamsInv /\ KindInv /\ ReadyInv
  BY DEF SubStreamsInv
<1> USE DEF GiveUp, MonitorEndsAs
<1>1. ShapeInv' BY <1>i DEF ShapeInv, Spent, srcVars, locals, ids, nameVars, history
<1>2. SourceInv' BY <1>i, SourceKept DEF history
<1>3. NameInv' BY Sets, MonitorNames DEF MonitorOver, history
<1>4. StreamsInv'
  <2>1. MonitorOver' /\ ~MonitorOver BY DEF MonitorOver
  <2>2. cur # 0 => overlap
    <3>1. SUFFICES ASSUME cur # 0, ~overlap PROVE FALSE OBVIOUS
    <3>2. cur = substreams_no /\ substreams_no <= subbuffers_no BY <1>i DEF StreamsInv
    <3>3. cur \in 1..subbuffers_no BY <1>i, <3>1, <3>2 DEF ShapeInv
    <3> QED BY Sets, <2>1, <3>1, <3>3 DEF NameInv
  <2>3. 0 <= subbuffers_no BY Sets DEF ShapeInv
  <2> QED BY <2>1, <2>2, <2>3 DEF StreamsInv, history
<1>5. KindInv'
  <2>1. KindsKnown' BY <1>i, Zenon DEF KindInv, KindsKnown, history
  <2> QED BY <1>i, <2>1, MonitorKinds DEF history
<1>6. ReadyInv' BY DEF ReadyInv
<1> QED BY <1>1, <1>2, <1>3, <1>4, <1>5, <1>6, Zenon DEF SubStreamsInv

(* The control buffer was written, or the source is to blame. *)
LEMMA OpenControlStep ==
    ASSUME SubStreamsInv, OpenControl
    PROVE  SubStreamsInv'
<1>i. ShapeInv /\ SourceInv /\ NameInv /\ StreamsInv /\ KindInv /\ ReadyInv
  BY DEF SubStreamsInv
<1> USE DEF OpenControl
<1>1. CASE cur \in ctrls
  <2>0. UNCHANGED <<srcVars, nameVars, shm, subbuffers_no, cur, streams, substreams_no,
                    pend, chk, history>>
        /\ mpc = "openctrl" /\ mpc' = FirstOfTwo
    BY <1>1
  <2> HIDE DEF OpenControl
  <2>1. ShapeInv' BY <1>i, <2>0 DEF ShapeInv, FirstOfTwo, Spent, srcVars, locals, ids, nameVars,
                     history
  <2>2. SourceInv' BY <1>i, <2>0, SourceKept DEF history
  <2>3. NameInv' BY <1>i, <2>0, MonitorNames DEF MonitorOver, history, FirstOfTwo
  <2>4. StreamsInv'
    <3>1. ~MonitorOver' /\ ~MonitorOver BY <2>0 DEF MonitorOver, FirstOfTwo
    <3> QED BY <1>i, <2>0, <3>1 DEF StreamsInv, nameVars, history, FirstOfTwo
  <2>5. KindInv'
    <3>1. InInit' = InInit BY <2>0 DEF InInit, srcVars, locals
    <3>2. KindsKnown' BY <1>i, <2>0 DEF KindInv, KindsKnown, history
    <3> QED BY <1>i, <2>0, <3>1, <3>2 DEF KindInv, Registers, ControlWritten, srcVars, locals,
               history,
               FirstOfTwo
  <2>6. ReadyInv' BY <2>0 DEF ReadyInv, FirstOfTwo
  <2> QED BY <2>1, <2>2, <2>3, <2>4, <2>5, <2>6 DEF SubStreamsInv
<1>2. CASE cur \notin ctrls
  <2>0. /\ mpc = "openctrl" /\ MonitorEndsAs("hollow") /\ UNCHANGED shm
        /\ \/ bufs' = bufs /\ ctrls' = ctrls \cup {cur}
           \/ bufs' = bufs \ {cur} /\ ctrls' = ctrls
    BY <1>2
  <2> HIDE DEF OpenControl
  <2>a. /\ cur = 0 /\ ~shm[0].attached /\ (hasty \/ src = "crashed")
    <3>1. cur = 0 BY <1>i, <1>2, <2>0 DEF StreamsInv, NameInv, MonitorOver
    <3>2. src = "alive" /\ InInit /\ tpc[0] \notin {"sleep", "cache"} => 0 \in ctrls
      BY <1>i, <2>0, <3>1 DEF KindInv, NameInv, InInit
    <3> QED BY <1>i, <1>2, <2>0, <3>1, <3>2 DEF KindInv
  <2> USE DEF MonitorEndsAs
  <2>1. ShapeInv' BY <1>i, Sets, <2>0 DEF ShapeInv, Spent, srcVars, locals, ids, history
  <2>2. SourceInv' BY <1>i, <2>0, SourceKept DEF history
  <2>3. NameInv'
    <3>1. MonitorOver' BY <2>0 DEF MonitorOver
    <3>2. Creators' = Creators BY <2>0 DEF Creators, srcVars, locals
    <3>3. src = "alive" => bufs' \cup ctrls' \subseteq 0..last_subbufer_no
      <4>1. 0 \in 0..last_subbufer_no BY <1>i DEF ShapeInv
      <4>2. bufs' \cup ctrls' \subseteq bufs \cup ctrls \cup {0} BY <2>0, <2>a
      <4> QED BY <1>i, <4>1, <4>2 DEF NameInv
    <3> QED BY <1>i, <2>0, <3>1, <3>2, <3>3 DEF NameInv, srcVars, locals, ids, history
  <2>4. StreamsInv'
    <3>1. 0 <= subbuffers_no BY <1>i, Sets DEF ShapeInv
    <3> QED BY <2>0, <3>1 DEF StreamsInv, history, MonitorOver
  <2>5. KindInv'
    <3>1. InInit' = InInit BY <2>0 DEF InInit, srcVars, locals
    <3>2. KindsKnown' BY <1>i, <2>0 DEF KindInv, KindsKnown, history
    <3>3. ControlWritten'
      <4>1. cur' = cur /\ hasty' = hasty /\ src' = src /\ shm' = shm BY <2>0 DEF srcVars, history
      <4> QED BY <2>a, <4>1, Zenon DEF ControlWritten
    <3> QED BY Sets, <2>0, <3>1, <3>2, <3>3 DEF KindInv, Registers, srcVars, locals, history
  <2>6. ReadyInv' BY <2>0 DEF ReadyInv
  <2> QED BY <2>1, <2>2, <2>3, <2>4, <2>5, <2>6 DEF SubStreamsInv
<1> QED BY <1>1, <1>2 DEF SubStreamsInv

(* The monitor registers its events with a buffer. *)
LEMMA RegisterStep ==
    ASSUME SubStreamsInv, Register
    PROVE  SubStreamsInv'
<1>i. ShapeInv /\ SourceInv /\ NameInv /\ StreamsInv /\ KindInv /\ ReadyInv
  BY DEF SubStreamsInv
<1>0. /\ mpc = "register" /\ mpc' = (IF cur = 0 THEN "check" ELSE "attach") /\ chk' = 1
      /\ UNCHANGED <<srcVars, nameVars, subbuffers_no, cur, streams, substreams_no, pend, history>>
  BY DEF Register
<1>a. /\ shm' \in [Numbers -> Buffers]
      /\ \A n \in Numbers : /\ shm'[n].ring = shm[n].ring
                            /\ shm'[n].destroyed = shm[n].destroyed
                            /\ shm'[n].attached = shm[n].attached
                            /\ shm[n].registered => shm'[n].registered
      /\ shm'[cur].registered /\ cur \in Numbers
  <2>1. shm' = [shm EXCEPT ![cur] = [shm[cur] EXCEPT !.registered = TRUE]] BY DEF Register
  <2>2. shm \in [Numbers -> Buffers] /\ cur \in Numbers BY <1>i DEF ShapeInv
  <2>3. \A b \in Buffers : /\ [b EXCEPT !.registered = TRUE] \in Buffers
                           /\ [b EXCEPT !.registered = TRUE].ring = b.ring
                           /\ [b EXCEPT !.registered = TRUE].destroyed = b.destroyed
                           /\ [b EXCEPT !.registered = TRUE].attached = b.attached
                           /\ [b EXCEPT !.registered = TRUE].registered
    BY Zenon DEF Buffers
  <2> DEFINE b == [shm[cur] EXCEPT !.registered = TRUE]
  <2>4. /\ b \in Buffers /\ b.ring = shm[cur].ring /\ b.destroyed = shm[cur].destroyed
        /\ b.attached = shm[cur].attached /\ b.registered
    BY <2>2, <2>3
  <2>5. shm' = [shm EXCEPT ![cur] = b] BY <2>1
  <2> HIDE DEF b
  <2> QED BY <2>2, <2>4, <2>5
<1>1. ShapeInv'
  <2>1. /\ bufs' \subseteq Numbers /\ ctrls' \subseteq Numbers /\ cur' \in Numbers
        /\ streams' \in Seq(Numbers) /\ substreams_no' \in Nat
        /\ pend' \in [Numbers -> Nat] /\ \A n \in Numbers : Len(shm[n].ring) <= Cap
    BY <1>i, <1>0 DEF ShapeInv, nameVars
  <2>2. \A n \in Numbers : Len(shm'[n].ring) <= Cap BY <1>a, <2>1, Zenon
  <2> QED BY <1>i, <1>0, <1>a, <2>1, <2>2, MonitorShape
<1>2. SourceInv' BY <1>i, Zenon, <1>0, <1>a, SourceKept DEF history
<1>3. NameInv' BY <1>i, Sets, <1>0, <1>a, MonitorNames DEF MonitorOver, history
<1>4. StreamsInv'
  <2>1. ~MonitorOver' /\ ~MonitorOver BY <1>0 DEF MonitorOver
  <2> QED BY <1>i, <1>0, <2>1 DEF StreamsInv, nameVars, history
<1>5. KindInv'
  <2>1. InInit' = InInit BY <1>0 DEF InInit, srcVars, locals
  <2>2. KindsKnown' BY <1>i, <1>0, <1>a DEF KindInv, KindsKnown, history
  <2>3. Registers => shm'[0].registered BY Sets, <1>0, <1>a DEF Registers
  <2> QED BY <1>i, Sets, <1>0, <1>a, <2>1, <2>2, <2>3
          DEF KindInv, Registers, ControlWritten, srcVars, locals, history
<1>6. ReadyInv'
  <2>1. 1 \in 1..(substreams_no + 1) /\ 0..(1 - 2) = {} BY <1>i DEF ShapeInv
  <2> QED BY <1>0, <2>1 DEF ReadyInv
<1> QED BY <1>1, <1>2, <1>3, <1>4, <1>5, <1>6, Zenon DEF SubStreamsInv

(* The monitor attaches to a buffer and has one more stream. *)
LEMMA AttachStep ==
    ASSUME SubStreamsInv, Attach
    PROVE  SubStreamsInv'
<1>i. ShapeInv /\ SourceInv /\ NameInv /\ StreamsInv /\ KindInv /\ ReadyInv
  BY DEF SubStreamsInv
<1>0. /\ mpc = "attach" /\ mpc' = (IF cur = 0 THEN "register" ELSE "process")
      /\ streams' = Append(streams, cur)
      /\ UNCHANGED <<srcVars, nameVars, subbuffers_no, cur, substreams_no, pend, chk, history>>
  BY DEF Attach
<1>a. /\ shm' \in [Numbers -> Buffers]
      /\ \A n \in Numbers : /\ shm'[n].ring = shm[n].ring
                            /\ shm'[n].destroyed = shm[n].destroyed
                            /\ shm'[n].registered = shm[n].registered
                            /\ n # cur => shm'[n].attached = shm[n].attached
  <2>1. shm' = [shm EXCEPT ![cur] = buffer_set_attached(@, TRUE)] BY DEF Attach
  <2>2. shm \in [Numbers -> Buffers] /\ cur \in Numbers BY <1>i DEF ShapeInv
  <2>3. \A b \in Buffers : /\ buffer_set_attached(b, TRUE) \in Buffers
                           /\ buffer_set_attached(b, TRUE).ring = b.ring
                           /\ buffer_set_attached(b, TRUE).destroyed = b.destroyed
                           /\ buffer_set_attached(b, TRUE).registered = b.registered
    BY Zenon DEF Buffers, buffer_set_attached
  <2> QED BY Sets, <2>1, <2>2, <2>3, Zenon
<1>b. /\ streams' \in Seq(Numbers) /\ Len(streams') = Len(streams) + 1
      /\ \A i \in DOMAIN streams' : streams'[i] = i - 1
  <2>1. streams \in Seq(Numbers) /\ cur \in Numbers /\ Len(streams) = cur
    BY <1>i, <1>0 DEF ShapeInv, StreamsInv, MonitorOver
  <2>2. /\ streams' \in Seq(Numbers) /\ Len(streams') = Len(streams) + 1
        /\ DOMAIN streams' = 1..(Len(streams) + 1) /\ DOMAIN streams = 1..Len(streams)
        /\ streams'[Len(streams) + 1] = cur
        /\ \A i \in 1..Len(streams) : streams'[i] = streams[i]
    BY <1>0, <2>1
  <2>3. ASSUME NEW i \in 1..(cur + 1) PROVE streams'[i] = i - 1
    <3>1. CASE i = cur + 1 BY <2>1, <2>2, <3>1
    <3>2. CASE i \in 1..cur BY <1>i, <2>1, <2>2, <3>2, Zenon DEF StreamsInv
    <3> QED BY <2>1, <3>1, <3>2
  <2> QED BY <2>1, <2>2, <2>3
<1>1. ShapeInv'
  <2>1. /\ bufs' \subseteq Numbers /\ ctrls' \subseteq Numbers /\ cur' \in Numbers
        /\ substreams_no' \in Nat /\ chk' \in Nat
        /\ pend' \in [Numbers -> Nat] /\ \A n \in Numbers : Len(shm[n].ring) <= Cap
    BY <1>i, <1>0 DEF ShapeInv, nameVars
  <2>2. \A n \in Numbers : Len(shm'[n].ring) <= Cap BY <1>a, <2>1, Zenon
  <2> QED BY <1>i, <1>0, <1>a, <1>b, <2>1, <2>2, MonitorShape
<1>2. SourceInv' BY <1>i, <1>0, <1>a, SourceKept DEF history
<1>3. NameInv' BY <1>i, Sets, <1>0, <1>a, MonitorNames DEF MonitorOver, history
<1>4. StreamsInv'
  <2>1. ~MonitorOver' /\ ~MonitorOver BY <1>0 DEF MonitorOver
  <2>2. Len(streams') = substreams_no + 1 /\ cur = substreams_no
    BY <1>i, <1>0, <1>b, <2>1, Zenon DEF StreamsInv, ShapeInv
  <2> QED BY <1>i, <1>0, <1>b, <2>1, <2>2 DEF StreamsInv, nameVars, history
<1>5. KindInv'
  <2>1. InInit' = InInit BY <1>0, Zenon DEF InInit, srcVars, locals
  <2>2. KindsKnown' BY <1>i, <1>0, <1>a DEF KindInv, KindsKnown, history
  <2> QED BY <1>i, Sets, <1>0, <1>a, <2>1, <2>2
          DEF KindInv, Registers, ControlWritten, srcVars, locals, history
<1>6. ReadyInv' BY <1>0 DEF ReadyInv
<1> QED BY <1>1, <1>2, <1>3, <1>4, <1>5, <1>6, Zenon DEF SubStreamsInv

(* shamon_get_next_ev. *)
LEMMA NextEvStep ==
    ASSUME SubStreamsInv, NextEv
    PROVE  SubStreamsInv'
<1>i. ShapeInv /\ SourceInv /\ NameInv /\ StreamsInv /\ KindInv /\ ReadyInv
  BY DEF SubStreamsInv
<1>0. /\ mpc = "next"
      /\ UNCHANGED <<srcVars, nameVars, shm, subbuffers_no, streams, pend, chk, history>>
      /\ \/ /\ subbuffers_no > substreams_no /\ substreams_no' = substreams_no + 1
            /\ cur' = substreams_no + 1 /\ mpc' = "open"
         \/ mpc' = "process" /\ UNCHANGED <<substreams_no, cur>>
  BY DEF NextEv, has_new_substreams
<1>a. /\ substreams_no' \in Nat /\ substreams_no' <= subbuffers_no /\ cur' \in Numbers
      /\ mpc' = "open" => cur' # 0
  <2>1. /\ substreams_no \in Nat /\ subbuffers_no \in Nat /\ substreams_no <= subbuffers_no
        /\ subbuffers_no <= Budget /\ cur \in Numbers
    BY <1>i, Sets, <1>0, Zenon DEF ShapeInv, StreamsInv
  <2> QED BY Sets, <1>0, <2>1
<1>1. ShapeInv' BY <1>i, <1>0, <1>a DEF ShapeInv, Spent, srcVars, locals, ids, nameVars, history
<1>2. SourceInv' BY <1>i, <1>0, SourceKept DEF history
<1>3. NameInv' BY <1>i, <1>0, MonitorNames DEF MonitorOver, history
<1>4. StreamsInv'
  <2>1. ~MonitorOver' /\ ~MonitorOver BY <1>0 DEF MonitorOver
  <2>2. Len(streams) = substreams_no + 1 BY <1>i, <1>0, <2>1 DEF StreamsInv
  <2> QED BY <1>i, <1>0, <1>a, <2>1, <2>2 DEF StreamsInv, nameVars, history
<1>5. KindInv'
  <2>1. KindsKnown' BY <1>i, <1>0 DEF KindInv, KindsKnown, history
  <2> QED BY <1>i, <1>0, <1>a, <2>1, MonitorKinds DEF history
<1>6. ReadyInv' BY <1>0 DEF ReadyInv
<1> QED BY <1>1, <1>2, <1>3, <1>4, <1>5, <1>6, Zenon DEF SubStreamsInv

(* The thread of a stream moves an event to the arbiter buffer. *)
LEMMA ForwardStep ==
    ASSUME SubStreamsInv, NEW n \in Numbers, Forward(n)
    PROVE  SubStreamsInv'
<1>i. ShapeInv /\ SourceInv /\ NameInv /\ StreamsInv /\ KindInv /\ ReadyInv
  BY DEF SubStreamsInv
<1>0. /\ shm[n].ring # << >>
      /\ UNCHANGED <<srcVars, nameVars, subbuffers_no, mpc, cur, streams, substreams_no, chk, history>>
  BY DEF Forward
<1>a. /\ shm[n].ring \in Seq(BOOLEAN)
      /\ Tail(shm[n].ring) \in Seq(BOOLEAN) /\ Len(Tail(shm[n].ring)) = Len(shm[n].ring) - 1
      /\ \A i \in DOMAIN Tail(shm[n].ring) :
            i + 1 \in DOMAIN shm[n].ring /\ Tail(shm[n].ring)[i] = shm[n].ring[i + 1]
  <2> DEFINE r == shm[n].ring
  <2>1. r \in Seq(BOOLEAN) /\ r # << >> BY <1>i, <1>0, BufferTypes
  <2> HIDE DEF r
  <2>2. /\ Tail(r) \in Seq(BOOLEAN) /\ Len(Tail(r)) = Len(r) - 1 /\ Len(r) \in Nat
        /\ DOMAIN Tail(r) = 1..(Len(r) - 1) /\ DOMAIN r = 1..Len(r)
        /\ \A i \in 1..(Len(r) - 1) : Tail(r)[i] = r[i + 1]
    BY <2>1
  <2>3. \A i \in DOMAIN Tail(r) : i + 1 \in DOMAIN r /\ Tail(r)[i] = r[i + 1] BY <2>2
  <2> QED BY <2>1, <2>2, <2>3 DEF r
<1>b. /\ shm' \in [Numbers -> Buffers] /\ shm'[n].ring = Tail(shm[n].ring)
      /\ \A k \in Numbers : /\ shm'[k].destroyed = shm[k].destroyed
                            /\ shm'[k].registered = shm[k].registered
                            /\ shm'[k].attached = shm[k].attached
                            /\ k # n => shm'[k].ring = shm[k].ring
  <2>1. shm' = [shm EXCEPT ![n].ring = Tail(@)] BY DEF Forward
  <2>2. shm \in [Numbers -> Buffers] BY <1>i DEF ShapeInv
  <2>3. shm' = [shm EXCEPT ![n] = [shm[n] EXCEPT !.ring = Tail(shm[n].ring)]] BY <2>1
  <2>4. \A b \in Buffers : /\ [b EXCEPT !.ring = Tail(shm[n].ring)] \in Buffers
                           /\ [b EXCEPT !.ring = Tail(shm[n].ring)].ring = Tail(shm[n].ring)
                           /\ [b EXCEPT !.ring = Tail(shm[n].ring)].destroyed = b.destroyed
                           /\ [b EXCEPT !.ring = Tail(shm[n].ring)].attached = b.attached
                           /\ [b EXCEPT !.ring = Tail(shm[n].ring)].registered = b.registered
    BY <1>a, Zenon DEF Buffers
  <2> DEFINE b == [shm[n] EXCEPT !.ring = Tail(shm[n].ring)]
  <2>5. /\ b \in Buffers /\ b.ring = Tail(shm[n].ring) /\ b.destroyed = shm[n].destroyed
        /\ b.attached = shm[n].attached /\ b.registered = shm[n].registered
    BY <2>2, <2>4
  <2>6. shm' = [shm EXCEPT ![n] = b] BY <2>3
  <2> HIDE DEF b
  <2> QED BY <2>2, <2>5, <2>6
<1>c. /\ pend' \in [Numbers -> Nat] /\ \A k \in Numbers : k # n => pend'[k] = pend[k]
  <2>1. pend' = [pend EXCEPT ![n] = pend[n] + 1] BY DEF Forward
  <2>2. pend \in [Numbers -> Nat] /\ pend[n] \in Nat BY <1>i DEF ShapeInv
  <2> QED BY <2>1, <2>2
<1>1. ShapeInv'
  <2>1. \A k \in Numbers : Len(shm'[k].ring) <= Cap
    <3>1. Len(shm[n].ring) \in Nat /\ \A k \in Numbers : Len(shm[k].ring) <= Cap
      BY <1>i, <1>a DEF ShapeInv
    <3>2. Len(shm'[n].ring) <= Cap
      <4> DEFINE l == Len(shm[n].ring)
      <4>1. l \in Nat /\ l <= Cap /\ Len(shm'[n].ring) = l - 1 BY <1>a, <1>b, <3>1, Zenon
      <4> HIDE DEF l
      <4> QED BY Sets, <4>1
    <3> QED BY <1>b, <3>1, <3>2, Zenon
  <2>2. /\ bufs' \subseteq Numbers /\ ctrls' \subseteq Numbers /\ cur' \in Numbers
        /\ streams' \in Seq(Numbers) /\ substreams_no' \in Nat /\ chk' \in Nat
        /\ mpc' \in {"open", "openctrl", "register", "attach", "check", "subs", "size", "next",
                     "process", "destroy", "done", "failed", "hollow"}
    BY <1>i, <1>0 DEF ShapeInv, nameVars
  <2> QED BY <1>i, <1>0, <1>b, <1>c, <2>1, <2>2, MonitorShape
<1>2. SourceInv' BY <1>i, <1>0, <1>b, SourceKept DEF history
<1>3. NameInv' BY <1>i, Sets, <1>0, <1>b, MonitorNames DEF MonitorOver, history
<1>4. StreamsInv'
  <2>1. MonitorOver' = MonitorOver BY <1>0, Zenon DEF MonitorOver
  <2> QED BY <1>i, <1>0, <2>1 DEF StreamsInv, nameVars, history
<1>5. KindInv'
  <2>1. KindsKnown'
    <3>1. \A k \in Numbers : \A i \in DOMAIN shm'[k].ring : \E j \in DOMAIN shm[k].ring :
             shm'[k].ring[i] = shm[k].ring[j]
      <4>1. SUFFICES ASSUME NEW k \in Numbers, NEW i \in DOMAIN shm'[k].ring
                     PROVE  \E j \in DOMAIN shm[k].ring : shm'[k].ring[i] = shm[k].ring[j]
        OBVIOUS
      <4>2. CASE k = n BY <1>a, <1>b, <4>2, ZenonT(40)
      <4>3. CASE k # n BY <1>b, <4>3
      <4> QED BY <4>2, <4>3
    <3> QED BY <1>i, <1>0, <3>1 DEF KindInv, KindsKnown, history
  <2>2. InInit' = InInit BY <1>0 DEF InInit, srcVars, locals
  <2> QED BY <1>i, Sets, <1>0, <1>b, <2>1, <2>2, Zenon DEF KindInv, Registers, ControlWritten, srcVars,
             locals, history
<1>6. ReadyInv'
  <2>1. ~Dead(n) BY <1>0, Zenon DEF Dead
  <2>2. \A k \in Numbers : Dead(k) => Dead(k)' /\ pend'[k] = pend[k]
    BY <1>b, <1>c, <2>1 DEF Dead
  <2>3. mpc \in {"check", "subs", "size"} => \A k \in 0..(chk - 1) : k \in Numbers
    BY <1>i, Sets DEF ReadyInv, StreamsInv, ShapeInv
  <2>4. \A k \in 0..substreams_no : k \in Numbers BY <1>i, Sets DEF StreamsInv, ShapeInv
  <2>5. chk \in Nat BY <1>i DEF ShapeInv
  <2>6. mpc = "destroy" => \A k \in 0..substreams_no : Dead(k)' /\ pend'[k] = 0
    BY <1>i, <2>2, <2>4 DEF ReadyInv
  <2>7. mpc \in {"check", "subs", "size"} =>
          /\ \A k \in 0..(chk - 2) : Dead(k)' /\ pend'[k] = 0
          /\ mpc # "check" => Dead(chk - 1)'
    <3> SUFFICES ASSUME mpc \in {"check", "subs", "size"}
                 PROVE  /\ \A k \in 0..(chk - 2) : Dead(k)' /\ pend'[k] = 0
                        /\ mpc # "check" => Dead(chk - 1)'
      OBVIOUS
    <3>1. /\ \A k \in 0..(chk - 2) : Dead(k) /\ pend[k] = 0
          /\ mpc # "check" => Dead(chk - 1)
          /\ chk >= 1
      BY <1>i DEF ReadyInv
    <3>2. chk - 1 \in 0..(chk - 1) /\ \A k \in 0..(chk - 2) : k \in 0..(chk - 1)
      BY <2>5, <3>1
    <3>3. chk' = chk BY <1>0
    <3> QED BY <2>2, <2>3, <3>1, <3>2, <3>3
  <2>8. mpc \in {"check", "subs", "size"} =>
          /\ chk \in 1..(substreams_no + 1)
          /\ mpc = "size" \/ chk > 1 => subbuffers_no = substreams_no
    BY <1>i, Zenon DEF ReadyInv
  <2>9. /\ mpc = "destroy" => subbuffers_no = substreams_no
        /\ mpc = "done" => shm'[0].destroyed /\ (src # "crashed" => bufs \cup ctrls = {})
    BY <1>i, Sets, <1>b DEF ReadyInv
  <2> QED BY <1>0, <2>6, <2>7, <2>8, <2>9 DEF ReadyInv, nameVars, srcVars
<1> QED BY <1>1, <1>2, <1>3, <1>4, <1>5, <1>6, Zenon DEF SubStreamsInv

(* The steps of the loop of the monitor leave the shared memory alone and *)
(* concern only what shamon_is_ready has seen.                            *)
LEMMA LoopStep ==
    ASSUME SubStreamsInv,
           UNCHANGED <<srcVars, nameVars, shm, subbuffers_no, cur, streams, substreams_no, history>>,
           mpc \in {"process", "check", "subs", "size"},
           mpc' \in {"next", "check", "subs", "size", "destroy"},
           pend' \in [Numbers -> Nat], chk' \in Nat, ReadyInv'
    PROVE  SubStreamsInv'
<1>i. ShapeInv /\ SourceInv /\ NameInv /\ StreamsInv /\ KindInv /\ ReadyInv
  BY Zenon DEF SubStreamsInv
<1>1. ShapeInv' BY <1>i DEF ShapeInv, Spent, srcVars, locals, ids, nameVars, history
<1>2. SourceInv' BY <1>i, SourceKept DEF history
<1>3. NameInv' BY <1>i, MonitorNames DEF MonitorOver, history
<1>4. StreamsInv'
  <2>1. ~MonitorOver' /\ ~MonitorOver BY DEF MonitorOver
  <2> QED BY <1>i, <2>1 DEF StreamsInv, nameVars, history
<1>5. KindInv'
  <2>1. KindsKnown' BY <1>i DEF KindInv, KindsKnown, history
  <2> QED BY <1>i, <2>1, MonitorKinds DEF history
<1> QED BY <1>1, <1>2, <1>3, <1>4, <1>5 DEF SubStreamsInv

(* process_events. *)
LEMMA ProcessStep ==
    ASSUME SubStreamsInv, Process
    PROVE  SubStreamsInv'
<1>0. /\ mpc = "process" /\ mpc' \in {"next", "check"} /\ pend' \in [Numbers -> Nat]
      /\ chk' \in Nat /\ (mpc' = "check" => chk' = 1)
      /\ UNCHANGED <<srcVars, nameVars, shm, subbuffers_no, cur, streams, substreams_no, history>>
  <2>1. pend \in [Numbers -> Nat] /\ chk \in Nat BY DEF SubStreamsInv, ShapeInv
  <2> DEFINE first == IF turn > Len(streams) THEN 1 ELSE turn
             filled == {i \in first..Len(streams) : pend[streams[i]] > 0}
  <2>2. CASE \E i \in filled : /\ pend' = [pend EXCEPT ![streams[i]] = @ - 1]
                              /\ mpc' = "next" /\ UNCHANGED chk
    <3>1. PICK n : pend[n] > 0 /\ pend' = [pend EXCEPT ![n] = pend[n] - 1]
      BY <2>2, Zenon
    <3>2. pend' \in [Numbers -> Nat]
      <4>1. CASE n \in Numbers BY <2>1, <3>1, <4>1
      <4>2. CASE n \notin Numbers BY <2>1, <3>1, <4>2, Zenon
      <4> QED BY <4>1, <4>2
    <3> QED BY <2>1, <2>2, <3>2 DEF Process
  <2>3. CASE mpc' = "check" /\ chk' = 1 /\ UNCHANGED pend BY <2>1, <2>3 DEF Process
  <2>4. \/ \E i \in filled : pend' = [pend EXCEPT ![streams[i]] = @ - 1] /\ mpc' = "next" /\ UNCHANGED chk
        \/ mpc' = "check" /\ chk' = 1 /\ UNCHANGED pend
    BY Zenon DEF Process
  <2> QED BY <2>2, <2>3, <2>4, Zenon
<1>1. ReadyInv'
  <2>1. substreams_no \in Nat BY DEF SubStreamsInv, ShapeInv
  <2>2. 1 \in 1..(substreams_no + 1) /\ 0..(1 - 2) = {} BY <2>1
  <2>3. CASE mpc' = "next" BY <2>3 DEF ReadyInv
  <2>4. CASE mpc' = "check"
    <3>1. chk' = 1 /\ substreams_no' = substreams_no BY <1>0, <2>4
    <3> QED BY <2>2, <2>4, <3>1 DEF ReadyInv
  <2> QED BY <1>0, <2>3, <2>4
<1> QED BY <1>0, <1>1, LoopStep

(* What shamon_is_ready knows when it looks at stream chk. *)
LEMMA Looking ==
    ASSUME SubStreamsInv, mpc \in {"check", "subs", "size"}
    PROVE  /\ chk \in 1..(substreams_no + 1) /\ substreams_no \in Nat
           /\ Len(streams) = substreams_no + 1 /\ streams[chk] = chk - 1
           /\ chk - 1 \in Numbers
           /\ \A n \in 0..(chk - 2) : Dead(n) /\ pend[n] = 0
           /\ mpc # "check" => Dead(chk - 1)
           /\ mpc = "size" \/ chk > 1 => subbuffers_no = substreams_no
<1>i. ShapeInv /\ SourceInv /\ NameInv /\ StreamsInv /\ KindInv /\ ReadyInv
  BY DEF SubStreamsInv
<1>1. /\ chk \in 1..(substreams_no + 1)
      /\ \A n \in 0..(chk - 2) : Dead(n) /\ pend[n] = 0
      /\ mpc # "check" => Dead(chk - 1)
      /\ mpc = "size" \/ chk > 1 => subbuffers_no = substreams_no
  BY <1>i DEF ReadyInv
<1>2. substreams_no \in Nat /\ subbuffers_no \in Nat /\ substreams_no <= subbuffers_no
      /\ subbuffers_no <= Budget /\ streams \in Seq(Numbers)
  BY <1>i, Sets DEF ShapeInv, StreamsInv
<1>3. Len(streams) = substreams_no + 1 BY <1>i DEF StreamsInv, MonitorOver
<1>4. chk \in DOMAIN streams BY <1>1, <1>2, <1>3
<1>5. streams[chk] = chk - 1 BY <1>i, <1>4 DEF StreamsInv
<1>6. chk - 1 \in Numbers BY Sets, <1>1, <1>2
<1> QED BY <1>1, <1>2, <1>3, <1>5, <1>6 DEF SubStreamsInv

(* The buffer of the stream is closed and empty, or the loop goes on. *)
LEMMA CheckReadyStep ==
    ASSUME SubStreamsInv, CheckReady
    PROVE  SubStreamsInv'
<1>0. /\ mpc = "check" /\ UNCHANGED <<pend, chk>>
      /\ mpc' = IF is_ready(streams[chk]) THEN "next" ELSE "subs"
      /\ UNCHANGED <<srcVars, nameVars, shm, subbuffers_no, cur, streams, substreams_no, history>>
  BY DEF CheckReady, StillReady
<1>1. pend' \in [Numbers -> Nat] /\ chk' \in Nat BY <1>0, Zenon DEF SubStreamsInv, ShapeInv
<1>2. ReadyInv'
  <2>1. mpc' = "subs" => Dead(chk - 1)' BY <1>0, Looking DEF Dead, is_ready
  <2>2. \A n \in 0..(chk - 2) : Dead(n)' /\ pend'[n] = 0 BY <1>0, Looking DEF Dead
  <2> QED BY <1>0, <2>1, <2>2, Looking, Zenon DEF ReadyInv
<1> QED BY <1>0, <1>1, <1>2, LoopStep

(* The top stream has no new sub-buffer, or the loop goes on. *)
LEMMA CheckSubStreamsStep ==
    ASSUME SubStreamsInv, CheckSubStreams
    PROVE  SubStreamsInv'
<1>0. /\ mpc = "subs" /\ UNCHANGED <<pend, chk>>
      /\ mpc' = IF has_new_substreams(streams[chk]) THEN "next" ELSE "size"
      /\ UNCHANGED <<srcVars, nameVars, shm, subbuffers_no, cur, streams, substreams_no, history>>
  BY DEF CheckSubStreams, StillReady
<1>1. pend' \in [Numbers -> Nat] /\ chk' \in Nat BY <1>0 DEF SubStreamsInv, ShapeInv
<1>2. ReadyInv'
  <2>1. Dead(chk - 1)' BY <1>0, Looking DEF Dead
  <2>2. \A n \in 0..(chk - 2) : Dead(n)' /\ pend'[n] = 0 BY <1>0, Looking DEF Dead
  <2>3. mpc' = "size" => subbuffers_no = substreams_no
    <3>1. CASE chk > 1 BY <1>0, <3>1, Looking
    <3>2. CASE ~(chk > 1)
      <4>1. chk - 1 = 0 BY <1>0, <3>2, Looking
      <4>2. mpc' = "size" => ~(subbuffers_no > substreams_no)
        BY <1>0, <4>1, Looking DEF has_new_substreams
      <4> QED BY <4>2, Sets DEF SubStreamsInv, StreamsInv, ShapeInv
    <3> QED BY <3>1, <3>2
  <2> QED BY <1>0, <2>1, <2>2, <2>3, Looking, Zenon DEF ReadyInv
<1> QED BY <1>0, <1>1, <1>2, LoopStep

(* The arbiter buffer of the stream is empty, or the loop goes on. *)
LEMMA CheckSizeStep ==
    ASSUME SubStreamsInv, CheckSize
    PROVE  SubStreamsInv'
<1>0. /\ mpc = "size" /\ UNCHANGED pend
      /\ mpc' = IF pend[streams[chk]] > 0 THEN "next"
                  ELSE IF chk = Len(streams) THEN "destroy" ELSE "check"
      /\ chk' = IF pend[streams[chk]] = 0 /\ chk < Len(streams) THEN chk + 1 ELSE chk
      /\ UNCHANGED <<srcVars, nameVars, shm, subbuffers_no, cur, streams, substreams_no, history>>
  BY DEF CheckSize, StillReady
<1>1. pend' \in [Numbers -> Nat] /\ chk' \in Nat
  BY <1>0 DEF SubStreamsInv, ShapeInv
<1>2. ReadyInv'
  <2>1. CASE mpc' = "next" BY <2>1 DEF ReadyInv
  <2>2. CASE mpc' # "next"
    <3>1. pend[chk - 1] = 0
      <4>1. pend[chk - 1] \in Nat BY <1>0, Looking, Zenon DEF SubStreamsInv, ShapeInv
      <4> QED BY <1>0, <2>2, <4>1, Looking
    <3>2. \A n \in 0..(chk - 1) : Dead(n)' /\ pend'[n] = 0
      <4>1. \A n \in 0..(chk - 1) : n \in 0..(chk - 2) \/ n = chk - 1 BY <1>0, Looking
      <4>2. Dead(chk - 1) BY <1>0, Looking
      <4> QED BY <1>0, <3>1, <4>1, <4>2, Looking DEF Dead
    <3>3. CASE chk = Len(streams)
      <4>1. mpc' = "destroy" /\ substreams_no = chk - 1 /\ subbuffers_no = substreams_no
        BY <1>0, <2>2, <3>3, Looking
      <4> QED BY <1>0, <3>2, <4>1, Zenon DEF ReadyInv
    <3>4. CASE chk # Len(streams)
      <4>1. mpc' = "check" /\ chk' = chk + 1 /\ chk' \in 1..(substreams_no + 1)
            /\ chk' - 2 = chk - 1 /\ subbuffers_no = substreams_no
        BY <1>0, <2>2, <3>1, <3>4, Looking
      <4> QED BY <1>0, <3>2, <4>1 DEF ReadyInv
    <3> QED BY <3>3, <3>4
  <2> QED BY <2>1, <2>2
<1> QED BY <1>0, <1>1, <1>2, LoopStep

(* shamon_destroy finds every buffer of a stream closed, so that detaching *)
(* does nothing to it, and releases the names of all sub-buffers.          *)
LEMMA DestroyStep ==
    ASSUME SubStreamsInv, shamon_destroy
    PROVE  SubStreamsInv'
<1>i. ShapeInv /\ SourceInv /\ NameInv /\ StreamsInv /\ KindInv /\ ReadyInv
  BY DEF SubStreamsInv
<1>0. /\ mpc = "destroy" /\ mpc' = "done" /\ streams' = << >> /\ substreams_no' = 0
      /\ pend' = [n \in Numbers |-> 0] /\ chk' = 1
      /\ bufs' = bufs \ (Opened \ {0}) /\ ctrls' = ctrls \ (Opened \ {0})
      /\ UNCHANGED <<srcVars, subbuffers_no, cur, history>>
  BY Zenon DEF shamon_destroy, MonitorEndsAs, release_shared_sub_buffers
<1>a. /\ \A n \in 0..substreams_no : Dead(n) /\ subbuffers_no = substreams_no
      /\ substreams_no \in Nat /\ substreams_no \in Numbers
  BY <1>i, <1>0 DEF ReadyInv, ShapeInv
<1>b. Opened = 0..substreams_no
  <2>1. Len(streams) = substreams_no + 1 /\ streams \in Seq(Numbers)
    BY <1>i, <1>0 DEF StreamsInv, ShapeInv, MonitorOver
  <2>2. DOMAIN streams = 1..(substreams_no + 1) /\ \A i \in DOMAIN streams : streams[i] = i - 1
    BY <1>i, <2>1 DEF StreamsInv
  <2>3. \A n \in Opened : n \in 0..substreams_no BY <1>a, <2>2 DEF Opened
  <2>4. ASSUME NEW n \in 0..substreams_no PROVE n \in Opened
    <3>1. n + 1 \in DOMAIN streams /\ streams[n + 1] = n BY <1>a, <2>2
    <3> QED BY <3>1 DEF Opened
  <2> QED BY <2>3, <2>4, Zenon
<1>c. shm' = shm
  <2>1. shm \in [Numbers -> Buffers] BY <1>i DEF ShapeInv
  <2>2. shm' = [n \in Numbers |-> IF n \in Opened THEN buffer_set_attached(shm[n], FALSE)
                                                  ELSE shm[n]]
    BY DEF shamon_destroy
  <2>3. \A n \in Opened : buffer_set_attached(shm[n], FALSE) = shm[n]
    BY <1>a, <1>b DEF Dead, buffer_set_attached
  <2>4. \A n \in Numbers : shm'[n] = shm[n] BY <2>2, <2>3, Zenon
  <2> QED BY <2>1, <2>2, <2>4, Zenon
<1>d. shm[0].destroyed
  <2>1. 0 \in 0..substreams_no BY <1>a
  <2> QED BY <1>a, <2>1 DEF Dead
<1>1. ShapeInv'
  <2>1. /\ bufs' \subseteq Numbers /\ ctrls' \subseteq Numbers /\ cur' \in Numbers
        /\ streams' \in Seq(Numbers) /\ substreams_no' \in Nat /\ chk' \in Nat
        /\ pend' \in [Numbers -> Nat]
    BY Sets, <1>0 DEF ShapeInv
  <2>2. shm' \in [Numbers -> Buffers] /\ \A n \in Numbers : Len(shm'[n].ring) <= Cap
    BY <1>i, <1>c DEF ShapeInv
  <2> QED BY <1>i, <1>0, <2>1, <2>2, MonitorShape
<1>2. SourceInv'
  <2>1. UNCHANGED <<srcVars, subbuffers_no, overlap>> BY <1>0, Zenon DEF history
  <2>2. \A n \in Numbers : shm'[n].destroyed = shm[n].destroyed BY <1>c, Zenon
  <2> QED BY <1>i, <2>1, <2>2, SourceKept, Zenon
<1>e. shm[0].destroyed /\ src # "crashed" => bufs \cup ctrls \subseteq 1..subbuffers_no
  BY Sets, <1>0 DEF NameInv
<1>3. NameInv'
  <2>1. MonitorOver' BY <1>0 DEF MonitorOver
  <2>2. bufs' \cup ctrls' \subseteq bufs \cup ctrls /\ (0 \in ctrls => 0 \in ctrls')
        /\ (0 \notin bufs => 0 \notin bufs')
    BY <1>0
  <2>3. tpc' = tpc /\ child' = child /\ src' = src /\ last_subbufer_no' = last_subbufer_no
        /\ subbuffers_no' = subbuffers_no
    BY <1>0 DEF srcVars, locals, ids
  <2> QED BY Sets, <1>0, <1>c, <1>e, <2>1, <2>2, <2>3 DEF NameInv
<1>4. StreamsInv'
  <2>1. MonitorOver' BY <1>0 DEF MonitorOver
  <2> QED BY <1>0, <1>a, <2>1 DEF StreamsInv
<1>5. KindInv'
  <2>1. KindsKnown' BY <1>i, <1>0, <1>c, Zenon DEF KindInv, KindsKnown, history
  <2> QED BY <1>i, <1>0, <1>c, <2>1, MonitorKinds DEF history
<1>6. ReadyInv'
  <2>1. 1..subbuffers_no = Opened \ {0} BY <1>a, <1>b
  <2>2. src # "crashed" => bufs' \cup ctrls' = {} BY <1>0, <1>d, <1>e, <2>1, Zenon
  <2> QED BY <1>0, <1>c, <1>d, <2>2 DEF ReadyInv, srcVars
<1> QED BY <1>1, <1>2, <1>3, <1>4, <1>5, <1>6, Zenon DEF SubStreamsInv

-----------------------------------------------------------------------------
(* The source. *)

Pcs == {"none", "ctrl", "buf", "wait", "sleep", "cache", "run", "count", "fork", "exited",
        "fini", "gone"}

(* The types in a step of the source. *)
LEMMA SourceShape ==
    ASSUME ShapeInv, UNCHANGED monVars, tpc' \in [Threads -> Pcs],
           child' \in [Threads -> Threads], no' \in [Threads -> Numbers],
           last_thread_id' \in Nat, last_thread_id' >= 1, last_subbufer_no' \in Nat,
           reported' \in Nat, Spent' <= Budget, cached' \in BOOLEAN,
           src' \in {"alive", "ended", "crashed"},
           bufs' \subseteq Numbers, ctrls' \subseteq Numbers,
           shm' \in [Numbers -> Buffers], \A n \in Numbers : Len(shm'[n].ring) <= Cap,
           subbuffers_no' \in Numbers, hasty' \in BOOLEAN, overlap' \in BOOLEAN
    PROVE  ShapeInv'
BY Zenon DEF ShapeInv, monVars, Pcs

(* While a thread is in create_shared_sub_buffer, or main has not left, the *)
(* top buffer is open.                                                      *)
LEMMA TopOpen ==
    ASSUME SubStreamsInv, src = "alive", NEW t \in Threads,
           tpc[t] \in Creating \/ (t = 0 /\ tpc[0] # "fini")
    PROVE  ~shm[0].destroyed
<1>i. ShapeInv /\ SourceInv /\ NameInv /\ StreamsInv /\ KindInv /\ ReadyInv
  BY DEF SubStreamsInv
<1> USE DEF SourceInv
<1>1. shm[0].destroyed => tpc[0] = "fini" /\ Creators = {} BY <1>i, Sets DEF ThreadInv
<1>2. ASSUME tpc[t] \in Creating, tpc[0] = "fini" PROVE t \in Creators
  <2>1. ~InInit BY <1>2, Zenon DEF InInit
  <2>2. child[t] # 0 BY <1>i, <1>2, <2>1, Zenon DEF ThreadInv
  <2> QED BY <1>2, <2>2 DEF Creators
<1> QED BY <1>1, <1>2 DEF SubStreamsInv

(* The number of the buffer of a thread that runs, and of the buffer that  *)
(* a thread makes.                                                         *)
LEMMA Numbering ==
    ASSUME SubStreamsInv, src = "alive", NEW t \in Threads, tpc[t] # "none"
    PROVE  /\ no[t] = t /\ t < last_thread_id /\ Making(t) = child[t]
           /\ child[t] \in 0..last_subbufer_no
           /\ last_subbufer_no = last_thread_id - 1 /\ last_subbufer_no <= Budget
           /\ (tpc[t] \in {"run", "fork", "exited"} => ~InInit)
<1>i. ShapeInv /\ SourceInv /\ NameInv /\ StreamsInv /\ KindInv /\ ReadyInv
  BY Zenon DEF SubStreamsInv
<1> USE DEF SourceInv
<1>0. /\ t \in Nat /\ last_thread_id \in Nat /\ last_thread_id >= 1 /\ child[t] \in Threads
      /\ reported \in Nat /\ last_thread_id - 1 + reported <= Budget
  BY <1>i, Sets, Zenon DEF ShapeInv, Spent
<1>1. /\ last_subbufer_no = last_thread_id - 1 /\ t < last_thread_id /\ no[t] = t
      /\ (child[t] # 0 => child[t] < last_thread_id)
  BY <1>i, <1>0 DEF ThreadInv
<1>2. child[t] < last_thread_id /\ child[t] \in Nat
  <2> DEFINE c == child[t]
  <2>1. c \in Nat BY Sets, <1>0, Zenon
  <2>2. c # 0 => c < last_thread_id BY <1>1
  <2> HIDE DEF c
  <2>3. c < last_thread_id BY <1>0, <2>1, <2>2
  <2> QED BY <2>1, <2>3 DEF c
<1>3. Making(t) = child[t] BY <1>i, <1>0, <1>2, Zenon DEF ThreadInv, Making
<1>4. ASSUME tpc[t] \in {"run", "fork", "exited"}, InInit PROVE FALSE
  <2>1. tpc[0] \notin {"run", "fork", "exited"} BY <1>4 DEF InInit
  <2>2. t # 0 BY <1>4, <2>1, Zenon
  <2> QED BY <1>i, <1>0, <1>1, <1>4, <2>2 DEF ThreadInv
<1> QED BY Sets, <1>0, <1>1, <1>2, <1>3, <1>4 DEF SubStreamsInv

(* A thread moves from one place to another: what ThreadInv asks of that.  *)
LEMMA ThreadsKept ==
    ASSUME SubStreamsInv, src = "alive", NEW t \in Threads, NEW pc \in Pcs,
           tpc' = [tpc EXCEPT ![t] = pc], tpc[t] # "none",
           UNCHANGED <<child, no, last_thread_id, last_subbufer_no, src, subbuffers_no, overlap>>,
           \A n \in Threads : n # t => shm'[n].destroyed = shm[n].destroyed,
           Creators' = Creators, InInit' => InInit,
           pc # "none", t # 0 => pc \notin {"wait", "sleep", "cache", "fini"},
           pc \in Creating \cup {"fork"} => child[t] # 0 \/ (t = 0 /\ InInit'),
           child[t] # 0 => pc \in Creating \cup {"fork"},
           t # 0 /\ tpc[0] \in Creating \cup {"fork"} => child[0] # 0 \/ InInit',
           shm'[t].destroyed => pc \in {"exited", "gone", "fini"},
           t = 0 => pc \notin {"none", "exited", "gone"},
           t = 0 /\ pc = "fini" => shm'[0].destroyed /\ Creators = {}
    PROVE  SourceInv'
<1>i. ShapeInv /\ ThreadInv BY Zenon DEF SubStreamsInv, SourceInv
<1>0. tpc \in [Threads -> Pcs] /\ child \in [Threads -> Threads] /\ last_thread_id \in Nat
  BY <1>i, Zenon DEF ShapeInv, Pcs
<1>b. tpc'[t] = pc /\ \A u \in Threads : u # t => tpc'[u] = tpc[u] BY <1>0, Zenon
<1>c. t < last_thread_id BY Numbering, Zenon
<1>1. ASSUME NEW u \in Threads
      PROVE  (/\ no[u] = IF u < last_thread_id THEN u ELSE 0
              /\ u >= last_thread_id => tpc[u] = "none"
              /\ u # 0 => tpc[u] \notin {"wait", "sleep", "cache", "fini"}
              /\ tpc[u] \in Creating \cup {"fork"} => child[u] # 0 \/ (u = 0 /\ InInit)
              /\ child[u] # 0 => /\ tpc[u] \in Creating \cup {"fork"}
                                 /\ child[u] < last_thread_id
              /\ u \in Creators => tpc[child[u]] = "none"
              /\ shm[u].destroyed => tpc[u] \in {"exited", "gone", "fini"})'
  <2>1. /\ no[u] = IF u < last_thread_id THEN u ELSE 0
        /\ u >= last_thread_id => tpc[u] = "none"
        /\ u # 0 => tpc[u] \notin {"wait", "sleep", "cache", "fini"}
        /\ tpc[u] \in Creating \cup {"fork"} => child[u] # 0 \/ (u = 0 /\ InInit)
        /\ child[u] # 0 => /\ tpc[u] \in Creating \cup {"fork"}
                           /\ child[u] < last_thread_id
        /\ u \in Creators => tpc[child[u]] = "none"
        /\ shm[u].destroyed => tpc[u] \in {"exited", "gone", "fini"}
    BY <1>i, Zenon DEF ThreadInv
  <2>2. u \in Creators => tpc'[child[u]] = "none"
    <3>1. child[u] \in Threads BY <1>0, Zenon
    <3> QED BY <1>b, <2>1, <3>1, Zenon
  <2>3. CASE u = t
    <3>1. ~(u >= last_thread_id) BY <1>0, <1>c, <2>3, Sets
    <3>2. tpc'[u] = pc /\ child'[u] = child[t] BY <1>b, <2>3, Zenon
    <3>3. /\ no'[u] = IF u < last_thread_id' THEN u ELSE 0
          /\ u >= last_thread_id' => tpc'[u] = "none"
      BY <2>1, <3>1, Zenon
    <3>4. /\ u # 0 => tpc'[u] \notin {"wait", "sleep", "cache", "fini"}
          /\ tpc'[u] \in Creating \cup {"fork"} => child'[u] # 0 \/ (u = 0 /\ InInit')
      BY <2>3, <3>2, Zenon
    <3>5. /\ child'[u] # 0 => /\ tpc'[u] \in Creating \cup {"fork"}
                               /\ child'[u] < last_thread_id'
          /\ u \in Creators' => tpc'[child'[u]] = "none"
      BY <2>1, <2>2, <2>3, <3>2, Zenon
    <3>6. shm'[u].destroyed => tpc'[u] \in {"exited", "gone", "fini"} BY <2>3, <3>2, Zenon
    <3> QED BY <3>3, <3>4, <3>5, <3>6, Zenon
  <2>4. CASE u # t
    <3>1. tpc'[u] = tpc[u] /\ shm'[u].destroyed = shm[u].destroyed BY <1>b, <2>4, Zenon
    <3>2. tpc'[u] \in Creating \cup {"fork"} => child'[u] # 0 \/ (u = 0 /\ InInit')
      BY <2>1, <2>4, <3>1, Zenon
    <3> QED BY <2>1, <2>2, <3>1, <3>2, Zenon
  <2> QED BY <2>3, <2>4, Zenon
<1>2. (/\ last_subbufer_no = last_thread_id - 1
       /\ \A v, u \in Threads : child[v] # 0 /\ child[v] = child[u] => v = u
       /\ tpc[0] \notin {"none", "exited", "gone"}
       /\ InInit => last_thread_id = 1
       /\ tpc[0] = "fini" => shm[0].destroyed /\ Creators = {}
       /\ AsMany(Creators, subbuffers_no, last_subbufer_no)
       /\ ~overlap => \A v \in Creators : child[v] = last_subbufer_no)'
  <2>1. /\ last_subbufer_no = last_thread_id - 1
        /\ \A v, u \in Threads : child[v] # 0 /\ child[v] = child[u] => v = u
        /\ tpc[0] \notin {"none", "exited", "gone"}
        /\ InInit => last_thread_id = 1
        /\ tpc[0] = "fini" => shm[0].destroyed /\ Creators = {}
        /\ AsMany(Creators, subbuffers_no, last_subbufer_no)
        /\ ~overlap => \A v \in Creators : child[v] = last_subbufer_no
    BY <1>i, Zenon DEF ThreadInv
  <2>2. AsMany(Creators, subbuffers_no, last_subbufer_no)' BY <2>1, Zenon
  <2>3. 0 \in Threads BY Sets, Zenon
  <2>4. /\ tpc'[0] \notin {"none", "exited", "gone"}
        /\ tpc'[0] = "fini" => shm'[0].destroyed /\ Creators' = {}
    <3>1. CASE t = 0 BY <1>b, <3>1, Zenon
    <3>2. CASE t # 0
      <4>1. tpc'[0] = tpc[0] /\ shm'[0].destroyed = shm[0].destroyed BY <1>b, <2>3, <3>2, Zenon
      <4> QED BY <2>1, <4>1, Zenon
    <3> QED BY <3>1, <3>2, Zenon
  <2> QED BY <2>1, <2>2, <2>4, Zenon
<1> HIDE DEF InInit, Creators
<1>3. ThreadInv' BY <1>1, <1>2, Zenon DEF ThreadInv
<1> QED BY <1>3, Zenon DEF SourceInv

(* A thread goes on in create_shared_sub_buffer, or main in __tsan_init. *)
LEMMA MoveSource ==
    ASSUME SubStreamsInv, src = "alive", NEW t \in Threads, NEW pc \in Pcs,
           tpc' = [tpc EXCEPT ![t] = pc],
           UNCHANGED <<child, no, ids, src, subbuffers_no, overlap, shm>>,
           \/ child[t] # 0 /\ tpc[t] \in Creating /\ pc \in Creating
           \/ t = 0 /\ InInit /\ pc \in {"buf", "wait", "sleep", "cache", "run"}
    PROVE  SourceInv' /\ Creators' = Creators /\ (pc # "run" => InInit' = InInit)
<1>i. ShapeInv /\ SourceInv /\ NameInv /\ StreamsInv /\ KindInv /\ ReadyInv
  BY Zenon DEF SubStreamsInv
<1> USE DEF SourceInv
<1>0. tpc \in [Threads -> Pcs] /\ child \in [Threads -> Threads] BY <1>i, Zenon DEF ShapeInv, Pcs
<1>a. last_thread_id' = last_thread_id /\ last_subbufer_no' = last_subbufer_no BY Zenon DEF ids
<1>b. \A u \in Threads : tpc'[u] = IF u = t THEN pc ELSE tpc[u] BY <1>0, Zenon
<1>1. CASE child[t] # 0 /\ tpc[t] \in Creating /\ pc \in Creating
  <2>1. Creators' = Creators BY <1>1, <1>b, Zenon DEF Creators
  <2>2. InInit' = InInit BY <1>1, <1>b DEF InInit, Creating
  <2>3. /\ ~shm[t].destroyed /\ tpc[t] # "none"
        /\ (tpc[0] \in Creating \cup {"fork"} => child[0] # 0 \/ InInit)
    BY <1>i, Sets, <1>1, Zenon DEF ThreadInv, Creating
  <2>4. /\ tpc[t] # "none"
        /\ pc # "none" /\ (t # 0 => pc \notin {"wait", "sleep", "cache", "fini"})
        /\ (pc \in Creating \cup {"fork"} => child[t] # 0 \/ (t = 0 /\ InInit'))
        /\ (child[t] # 0 => pc \in Creating \cup {"fork"})
        /\ (t # 0 /\ tpc[0] \in Creating \cup {"fork"} => child[0] # 0 \/ InInit')
        /\ (shm'[t].destroyed => pc \in {"exited", "gone", "fini"})
        /\ (t = 0 => pc \notin {"none", "exited", "gone"})
        /\ ~(t = 0 /\ pc = "fini")
        /\ \A n \in Threads : n # t => shm'[n].destroyed = shm[n].destroyed
    BY <1>1, <2>2, <2>3 DEF Creating
  <2>5. SourceInv' BY <1>a, <2>1, <2>2, <2>4, ThreadsKept, Zenon
  <2> QED BY <2>1, <2>2, <2>5, Zenon
<1>2. CASE t = 0 /\ InInit /\ pc \in {"buf", "wait", "sleep", "cache", "run"}
  <2>1. /\ child[0] = 0 /\ last_thread_id = 1 /\ ~shm[0].destroyed
        /\ tpc[0] \notin {"none", "fini", "exited", "gone"}
    BY <1>i, <1>2 DEF ThreadInv, InInit, Creating
  <2>2. Creators' = Creators BY <1>2, <1>b, <2>1, Zenon DEF Creators
  <2>3. pc # "run" => InInit' BY <1>2, <1>b, <2>1 DEF InInit
  <2>4. pc = "run" => ~InInit' BY <1>2, <1>b, Zenon DEF InInit
  <2>5. /\ tpc[t] # "none"
        /\ pc # "none" /\ (t # 0 => pc \notin {"wait", "sleep", "cache", "fini"})
        /\ (pc \in Creating \cup {"fork"} => child[t] # 0 \/ (t = 0 /\ InInit'))
        /\ (child[t] # 0 => pc \in Creating \cup {"fork"})
        /\ (t # 0 /\ tpc[0] \in Creating \cup {"fork"} => child[0] # 0 \/ InInit')
        /\ (shm'[t].destroyed => pc \in {"exited", "gone", "fini"})
        /\ (t = 0 => pc \notin {"none", "exited", "gone"})
        /\ ~(t = 0 /\ pc = "fini")
        /\ \A n \in Threads : n # t => shm'[n].destroyed = shm[n].destroyed
    BY <1>2, <2>1, <2>3 DEF Creating
  <2>6. SourceInv' BY <1>a, <1>2, <2>2, <2>5, ThreadsKept, Zenon
  <2> QED BY <1>2, <2>2, <2>3, <2>6, Zenon
<1> QED BY <1>1, <1>2, Zenon DEF SubStreamsInv

(* The control buffer of the top buffer or of a sub-buffer gets its name. *)
LEMMA ControlBufferStep ==
    ASSUME SubStreamsInv, NEW t \in Threads, create_shared_control_buffer(t)
    PROVE  SubStreamsInv'
<1>i. ShapeInv /\ SourceInv /\ NameInv /\ StreamsInv /\ KindInv /\ ReadyInv
  BY DEF SubStreamsInv
<1>0. /\ src = "alive" /\ tpc[t] = "ctrl" /\ tpc' = [tpc EXCEPT ![t] = "buf"]
      /\ ctrls' = ctrls \cup {child[t]}
      /\ UNCHANGED <<child, no, ids, reported, cached, src, bufs, shm, subbuffers_no, monVars,
                     hasty, overlap>>
  BY Numbering, Zenon DEF create_shared_control_buffer, At, Goto, locals, history
<1>a. child[t] # 0 \/ (t = 0 /\ InInit) BY <1>i, <1>0 DEF SourceInv, ThreadInv, Creating
<1>b. SourceInv' /\ Creators' = Creators /\ InInit' = InInit
  BY <1>0, <1>a, MoveSource, Zenon DEF Creating, Pcs
<1>c. ~shm[0].destroyed BY <1>0, TopOpen, Zenon DEF Creating
<1>d. child[t] \in 0..last_subbufer_no /\ last_subbufer_no <= Budget /\ child[t] \in Numbers
  BY <1>i, Sets, <1>0, Numbering, Zenon DEF ShapeInv
<1>e. tpc \in [Threads -> Pcs] /\ tpc'[t] = "buf" /\ \A u \in Threads : u # t => tpc'[u] = tpc[u]
  BY <1>i, <1>0, Zenon DEF ShapeInv, Pcs
<1>1. ShapeInv'
  <2>1. tpc' \in [Threads -> Pcs] BY <1>0, <1>e, Zenon DEF Pcs
  <2> QED BY Sets, <1>0, <1>d, <2>1 DEF ShapeInv, Spent, ids, monVars, Pcs
<1>2. NameInv'
  <2>1. MonitorOver' = MonitorOver BY <1>0 DEF MonitorOver, monVars
  <2>2. src = "alive" => bufs \cup ctrls' \subseteq 0..last_subbufer_no
    BY <1>i, <1>0, <1>d DEF NameInv
  <2>3. tpc'[0] \in {"ctrl", "buf"} /\ child[0] = 0 => 0 \notin bufs
    BY <1>i, <1>0, <1>e DEF NameInv
  <2>4. 0 \in ctrls' \/ tpc'[0] = "fini" \/ (tpc'[0] = "ctrl" /\ child[0] = 0)
    <3>1. 0 \in ctrls \/ tpc[0] = "fini" \/ (tpc[0] = "ctrl" /\ child[0] = 0)
      BY <1>i, <1>0, Zenon DEF NameInv
    <3> QED BY <1>0, <1>e, <3>1
  <2>5. ~MonitorOver => \A u \in Creators : /\ tpc'[u] = "buf" => child[u] \in ctrls'
                                            /\ tpc'[u] = "count" => child[u] \in bufs
    BY <1>i, <1>0, <1>e DEF NameInv, Creators
  <2>6. /\ ~MonitorOver => bufs \ {0} \subseteq ctrls'
        /\ ~MonitorOver /\ ~overlap => 1..subbuffers_no \subseteq bufs
    BY <1>i, <1>0 DEF NameInv
  <2> QED BY <1>0, <1>b, <1>c, <2>1, <2>2, <2>3, <2>4, <2>5, <2>6 DEF NameInv, ids
<1>3. StreamsInv' BY <1>i, <1>0, StreamsKept, Zenon
<1>4. KindInv'
  <2>1. KindsKnown' /\ ControlWritten'
    BY <1>i, <1>0, Zenon DEF KindInv, KindsKnown, ControlWritten, monVars
  <2> QED BY <1>i, <1>0, <1>b, <1>e, <2>1 DEF KindInv, Registers, monVars
<1>5. ReadyInv'
  <2>1. \A n \in Numbers : Dead(n) => Dead(n)' BY <1>0, Zenon DEF Dead
  <2> QED BY <1>i, <1>0, <1>c, <2>1, ReadyKept, Zenon
<1> QED BY <1>1, <1>b, <1>2, <1>3, <1>4, <1>5 DEF SubStreamsInv

(* The top buffer or a sub-buffer gets its name. *)
LEMMA SharedBufferStep ==
    ASSUME SubStreamsInv, NEW t \in Threads, initialize_shared_buffer(t)
    PROVE  SubStreamsInv'
<1>i. ShapeInv /\ SourceInv /\ NameInv /\ StreamsInv /\ KindInv /\ ReadyInv
  BY DEF SubStreamsInv
<1> DEFINE pc == IF child[t] = 0 THEN "wait" ELSE "count"
<1>0. /\ src = "alive" /\ tpc[t] = "buf" /\ tpc' = [tpc EXCEPT ![t] = pc]
      /\ bufs' = bufs \cup {child[t]}
      /\ UNCHANGED <<child, no, ids, reported, cached, src, ctrls, shm, subbuffers_no, monVars,
                     hasty, overlap>>
  BY Numbering, Zenon DEF initialize_shared_buffer, At, Goto, locals, history
<1>a. child[t] # 0 \/ (t = 0 /\ InInit) BY <1>i, <1>0 DEF SourceInv, ThreadInv, Creating
<1>b. SourceInv' /\ Creators' = Creators /\ InInit' = InInit
  <2>1. CASE child[t] # 0 BY <1>0, <1>a, <2>1, MoveSource, Zenon DEF Creating, Pcs
  <2>2. CASE child[t] = 0 BY <1>0, <1>a, <2>2, MoveSource, Zenon DEF Creating, Pcs
  <2> QED BY <2>1, <2>2
<1>c. ~shm[0].destroyed BY <1>0, TopOpen DEF Creating
<1>d. child[t] \in 0..last_subbufer_no /\ last_subbufer_no <= Budget /\ child[t] \in Numbers
  BY <1>i, Sets, <1>0, Numbering, Zenon DEF ShapeInv
<1>e. tpc \in [Threads -> Pcs] /\ tpc'[t] = pc /\ \A u \in Threads : u # t => tpc'[u] = tpc[u]
  BY <1>i, <1>0, Zenon DEF ShapeInv, Pcs
<1>1. ShapeInv'
  <2>1. tpc' \in [Threads -> Pcs] BY <1>0, <1>e, Zenon DEF Pcs
  <2>2. Spent' <= Budget BY <1>i, <1>0, Zenon DEF ShapeInv, Spent, ids
  <2>3. bufs' \subseteq Numbers BY <1>i, <1>0, <1>d, Zenon DEF ShapeInv
  <2> QED BY <1>i, <1>0, <2>1, <2>2, <2>3, SourceShape, Zenon DEF ShapeInv, ids
<1>2. NameInv'
  <2>1. MonitorOver' = MonitorOver BY <1>0, Zenon DEF MonitorOver, monVars
  <2>2. src = "alive" => bufs' \cup ctrls \subseteq 0..last_subbufer_no
    BY <1>i, <1>0, <1>d, Zenon DEF NameInv
  <2>3. tpc'[0] \in {"ctrl", "buf"} /\ child[0] = 0 => 0 \notin bufs'
    BY <1>i, <1>0, <1>a, <1>e DEF NameInv
  <2>4. 0 \in ctrls \/ tpc'[0] = "fini" \/ (tpc'[0] = "ctrl" /\ child[0] = 0)
    <3>1. 0 \in ctrls \/ tpc[0] = "fini" \/ (tpc[0] = "ctrl" /\ child[0] = 0)
      BY <1>i, <1>0, Zenon DEF NameInv
    <3> QED BY <1>0, <1>e, <3>1
  <2>5. ~MonitorOver => \A u \in Creators : /\ tpc'[u] = "buf" => child[u] \in ctrls
                                            /\ tpc'[u] = "count" => child[u] \in bufs'
    BY <1>i, <1>0, <1>e, Zenon DEF NameInv, Creators
  <2>6. ~MonitorOver => bufs' \ {0} \subseteq ctrls
    <3>1. child[t] # 0 => t \in Creators BY <1>0, Zenon DEF Creators, Creating
    <3>2. ~MonitorOver /\ child[t] # 0 => child[t] \in ctrls BY <1>i, <1>0, <3>1, Zenon DEF NameInv
    <3> QED BY <1>i, <1>0, <3>2 DEF NameInv
  <2>7. ~MonitorOver /\ ~overlap => 1..subbuffers_no \subseteq bufs' BY <1>i, <1>0 DEF NameInv
  <2> QED BY <1>0, <1>b, <1>c, <2>1, <2>2, <2>3, <2>4, <2>5, <2>6, <2>7 DEF NameInv, ids
<1>3. StreamsInv' BY <1>i, <1>0, StreamsKept, Zenon
<1>4. KindInv'
  <2>1. KindsKnown' /\ ControlWritten'
    BY <1>i, <1>0 DEF KindInv, KindsKnown, ControlWritten, monVars
  <2> QED BY <1>i, <1>0, <1>b, <1>e, <2>1 DEF KindInv, Registers, monVars
<1>5. ReadyInv'
  <2>1. \A n \in Numbers : Dead(n) => Dead(n)' BY <1>0 DEF Dead
  <2> QED BY <1>i, <1>0, <1>c, <2>1, ReadyKept, Zenon
<1> QED BY <1>1, <1>b, <1>2, <1>3, <1>4, <1>5 DEF SubStreamsInv

(* The steps of __tsan_init once the buffers are made concern only what is *)
(* known of the kinds.                                                     *)
LEMMA InitMoves ==
    ASSUME SubStreamsInv, NEW pc \in {"sleep", "cache", "run"},
           src = "alive", tpc[0] \in {"wait", "sleep", "cache"}, tpc' = [tpc EXCEPT ![0] = pc],
           UNCHANGED <<child, no, ids, reported, src, nameVars, shm, subbuffers_no, monVars, overlap>>,
           cached' \in BOOLEAN, hasty' \in BOOLEAN
    PROVE  /\ ShapeInv' /\ SourceInv' /\ NameInv' /\ StreamsInv' /\ ReadyInv'
           /\ InInit /\ tpc'[0] = pc /\ (pc # "run" => InInit')
<1>i. ShapeInv /\ SourceInv /\ NameInv /\ StreamsInv /\ KindInv /\ ReadyInv
  BY DEF SubStreamsInv
<1>a. InInit BY DEF InInit
<1>b. SourceInv' /\ Creators' = Creators /\ (pc # "run" => InInit' = InInit)
  BY Sets, <1>a, MoveSource, Zenon DEF Pcs
<1>c. ~shm[0].destroyed BY Sets, TopOpen, Zenon
<1>e. tpc \in [Threads -> Pcs] /\ tpc'[0] = pc /\ \A u \in Threads : u # 0 => tpc'[u] = tpc[u]
  BY <1>i, Sets DEF ShapeInv, Pcs
<1>f. MonitorOver' = MonitorOver BY DEF MonitorOver, monVars
<1>1. ShapeInv'
  <2>1. tpc' \in [Threads -> Pcs] BY Sets, <1>e, Zenon DEF Pcs
  <2>2. Spent' <= Budget BY <1>i, Zenon DEF ShapeInv, Spent, ids
  <2> QED BY <1>i, <2>1, <2>2, SourceShape, Zenon DEF ShapeInv, ids, nameVars
<1>2. NameInv'
  <2>1. \A u \in Creators : u # 0 \/ tpc'[u] \notin {"buf", "count"} BY <1>e
  <2> QED BY <1>i, <1>b, <1>c, <1>e, <1>f, <2>1 DEF NameInv, ids, nameVars
<1>3. StreamsInv' BY <1>i, StreamsKept DEF nameVars
<1>5. ReadyInv'
  <2>1. \A n \in Numbers : Dead(n) => Dead(n)' BY DEF Dead
  <2> QED BY <1>i, <1>c, <2>1, ReadyKept
<1> QED BY <1>1, <1>a, <1>b, <1>e, <1>f, <1>2, <1>3, <1>5, Zenon DEF SubStreamsInv

(* The monitor has attached, so that it registers its events next. *)
LEMMA SeeAttachedStep ==
    ASSUME SubStreamsInv, SeeAttached
    PROVE  SubStreamsInv'
<1>i. ShapeInv /\ SourceInv /\ NameInv /\ StreamsInv /\ KindInv /\ ReadyInv
  BY DEF SubStreamsInv
<1>0. /\ src = "alive" /\ tpc[0] = "wait" /\ tpc' = [tpc EXCEPT ![0] = "sleep"] /\ shm[0].attached
      /\ UNCHANGED <<child, no, ids, reported, cached, src, nameVars, shm, subbuffers_no, monVars,
                     hasty, overlap>>
      /\ cached' \in BOOLEAN /\ hasty' \in BOOLEAN
  BY <1>i DEF SeeAttached, At, Goto, locals, history, ShapeInv
<1>1. /\ ShapeInv' /\ SourceInv' /\ NameInv' /\ StreamsInv' /\ ReadyInv'
      /\ InInit /\ tpc'[0] = "sleep" /\ InInit'
  BY <1>0, InitMoves, Zenon
<1>2. KindsKnown' /\ ControlWritten' BY <1>i, <1>0, Zenon DEF KindInv, KindsKnown, ControlWritten, monVars
<1>3. KindInv' BY <1>i, <1>0, <1>1, <1>2 DEF KindInv, Registers, monVars
<1> QED BY <1>1, <1>3, Zenon DEF SubStreamsInv

(* SIGINT ends the wait. *)
LEMMA InterruptWaitStep ==
    ASSUME SubStreamsInv, InterruptWait
    PROVE  SubStreamsInv'
<1>i. ShapeInv /\ SourceInv /\ NameInv /\ StreamsInv /\ KindInv /\ ReadyInv
  BY DEF SubStreamsInv
<1>0. /\ src = "alive" /\ tpc[0] = "wait" /\ tpc' = [tpc EXCEPT ![0] = "cache"] /\ hasty' = TRUE
      /\ UNCHANGED <<child, no, ids, reported, cached, src, nameVars, shm, subbuffers_no, monVars,
                     overlap>>
      /\ cached' \in BOOLEAN /\ hasty' \in BOOLEAN
  BY <1>i DEF InterruptWait, At, Goto, locals, ShapeInv
<1>1. /\ ShapeInv' /\ SourceInv' /\ NameInv' /\ StreamsInv' /\ ReadyInv'
      /\ InInit /\ tpc'[0] = "cache" /\ InInit'
  BY <1>0, InitMoves, Zenon
<1>2. KindsKnown' /\ ControlWritten' BY <1>i, <1>0, Zenon DEF KindInv, KindsKnown, ControlWritten, monVars
<1>3. KindInv' BY <1>i, <1>0, <1>1, <1>2, Zenon DEF KindInv, Registers, monVars
<1> QED BY <1>1, <1>3, Zenon DEF SubStreamsInv

(* The last sleep is over, and the monitor has registered its events or    *)
(* the source is hasty.                                                    *)
LEMMA SleepOnceMoreStep ==
    ASSUME SubStreamsInv, SleepOnceMore
    PROVE  SubStreamsInv'
<1>i. ShapeInv /\ SourceInv /\ NameInv /\ StreamsInv /\ KindInv /\ ReadyInv
  BY DEF SubStreamsInv
<1>0. /\ src = "alive" /\ tpc[0] = "sleep" /\ tpc' = [tpc EXCEPT ![0] = "cache"]
      /\ hasty' = (hasty \/ (mpc = "register" /\ cur = 0))
      /\ UNCHANGED <<child, no, ids, reported, cached, src, nameVars, shm, subbuffers_no, monVars,
                     overlap>>
      /\ cached' \in BOOLEAN /\ hasty' \in BOOLEAN
  BY <1>i, Zenon DEF SleepOnceMore, At, Goto, locals, ShapeInv
<1>1. /\ ShapeInv' /\ SourceInv' /\ NameInv' /\ StreamsInv' /\ ReadyInv'
      /\ InInit /\ tpc'[0] = "cache" /\ InInit'
  BY <1>0, InitMoves, Zenon
<1>2. KindsKnown' /\ ControlWritten'
  <2>1. KindsKnown' BY <1>i, <1>0, Zenon DEF KindInv, KindsKnown
  <2>2. ControlWritten' BY <1>i, <1>0, Zenon DEF KindInv, ControlWritten, monVars
  <2> QED BY <2>1, <2>2, Zenon
<1>3. KindInv'
  <2>1. tpc'[0] # "sleep" BY <1>1
  <2>2. ~hasty' => shm[0].registered BY <1>i, <1>0, Zenon DEF KindInv, Registers
  <2> QED BY <1>i, <1>0, <1>1, <1>2, <2>1, <2>2, Zenon DEF KindInv, Registers, monVars
<1> QED BY <1>1, <1>3 DEF SubStreamsInv

(* The kinds are cached, which the monitor gave unless it was not waited for. *)
LEMMA CacheKindsStep ==
    ASSUME SubStreamsInv, CacheKinds
    PROVE  SubStreamsInv'
<1>i. ShapeInv /\ SourceInv /\ NameInv /\ StreamsInv /\ KindInv /\ ReadyInv
  BY DEF SubStreamsInv
<1>a. shm[0].registered \in BOOLEAN BY <1>i, Sets, BufferTypes, Zenon
<1>0. /\ src = "alive" /\ tpc[0] = "cache" /\ tpc' = [tpc EXCEPT ![0] = "run"]
      /\ cached' = shm[0].registered
      /\ UNCHANGED <<child, no, ids, reported, src, nameVars, shm, subbuffers_no, monVars,
                     hasty, overlap>>
      /\ cached' \in BOOLEAN /\ hasty' \in BOOLEAN
  BY <1>i, <1>a, Zenon DEF CacheKinds, At, Goto, history, ShapeInv
<1>1. /\ ShapeInv' /\ SourceInv' /\ NameInv' /\ StreamsInv' /\ ReadyInv'
      /\ InInit /\ tpc'[0] = "run"
  BY <1>0, InitMoves, Zenon
<1>2. KindsKnown' /\ ControlWritten'
  <2>1. KindsKnown' BY <1>i, <1>0, Zenon DEF KindInv, KindsKnown
  <2>2. ControlWritten' BY <1>i, <1>0, Zenon DEF KindInv, ControlWritten, monVars
  <2> QED BY <2>1, <2>2, Zenon
<1>3. KindInv' BY <1>i, <1>0, <1>1, <1>2 DEF KindInv, Registers, monVars
<1> QED BY <1>1, <1>3 DEF SubStreamsInv
=============================================================================
