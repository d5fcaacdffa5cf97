------------------------- MODULE SubStreamsTheorems -------------------------
(***************************************************************************)
(* SubStreamsInv is inductive, for every number of threads and events and  *)
(* for every capacity of the buffers: the steps of the program once it is  *)
(* running, and the theorems.                                              *)
(***************************************************************************)
EXTENDS SubStreamsProofs

(* Nobody is as many as no numbers. *)
LEMMA AsManyNone ==
    ASSUME NEW m \in Nat PROVE AsMany({}, m, m)
<1> DEFINE f == [t \in {} |-> m]
<1>1. \A i \in (m + 1)..m : FALSE OBVIOUS
<1>2. f \in [{} -> (m + 1)..m] OBVIOUS
<1> HIDE DEF f
<1>3. \E g \in [{} -> (m + 1)..m] :
         /\ \A i \in (m + 1)..m : \E t \in {} : g[t] = i
         /\ \A t, u \in {} : g[t] = g[u] => t = u
  BY <1>1, <1>2, Zenon
<1>4. m <= m OBVIOUS
<1> QED BY <1>3, <1>4, Zenon DEF AsMany

(* If nobody is left, no number is. *)
LEMMA AsManyZero ==
    ASSUME NEW m \in Nat, NEW n \in Nat, AsMany({}, m, n) PROVE m = n
<1>1. m <= n /\ \A i \in (m + 1)..n : FALSE BY DEF AsMany
<1>2. m < n => m + 1 \in (m + 1)..n OBVIOUS
<1> QED BY <1>1, <1>2

(* One more, and one more number. *)
LEMMA AsManyTake ==
    ASSUME NEW m \in Nat, NEW n \in Nat, NEW S, NEW t, t \notin S, AsMany(S, m, n)
    PROVE  AsMany(S \cup {t}, m, n + 1)
<1>1. PICK f \in [S -> (m + 1)..n] :
         /\ \A i \in (m + 1)..n : \E u \in S : f[u] = i
         /\ \A u, v \in S : f[u] = f[v] => u = v
  BY DEF AsMany
<1>2. m <= n BY DEF AsMany
<1> DEFINE g == [u \in S \cup {t} |-> IF u = t THEN n + 1 ELSE f[u]]
<1>3. \A i \in (m + 1)..(n + 1) : i \in (m + 1)..n \/ i = n + 1 BY <1>2
<1>4. \A i \in (m + 1)..n : i \in (m + 1)..(n + 1) /\ i # n + 1 BY <1>2
<1>5. n + 1 \in (m + 1)..(n + 1) BY <1>2
<1>6. g[t] = n + 1 /\ \A u \in S : g[u] = f[u] /\ f[u] \in (m + 1)..n BY <1>1
<1>7. g \in [S \cup {t} -> (m + 1)..(n + 1)] BY <1>4, <1>5, <1>6
<1> HIDE DEF g
<1>8. \A i \in (m + 1)..(n + 1) : \E u \in S \cup {t} : g[u] = i BY <1>1, <1>3, <1>6
<1>9. \A u, v \in S \cup {t} : g[u] = g[v] => u = v BY <1>1, <1>4, <1>6
<1> QED BY <1>2, <1>7, <1>8, <1>9 DEF AsMany

(* One less, and one number less: the one who had the first number takes  *)
(* that of the one who goes.                                              *)
LEMMA AsManyCount ==
    ASSUME NEW m \in Nat, NEW n \in Nat, NEW S, NEW t \in S, AsMany(S, m, n)
    PROVE  m + 1 <= n /\ AsMany(S \ {t}, m + 1, n)
<1>1. PICK f \in [S -> (m + 1)..n] :
         /\ \A i \in (m + 1)..n : \E u \in S : f[u] = i
         /\ \A u, v \in S : f[u] = f[v] => u = v
  BY DEF AsMany
<1>2. f[t] \in (m + 1)..n /\ m + 1 <= n BY <1>1
<1> DEFINE g == [u \in S \ {t} |-> IF f[u] = m + 1 THEN f[t] ELSE f[u]]
           I == (m + 1)..n
           J == ((m + 1) + 1)..n
<1>3. \A i \in I : i \in J <=> i # m + 1 OBVIOUS
<1>4. J \subseteq I /\ m + 1 \in I BY <1>2
<1>5. f[t] \in I /\ \A u \in S : f[u] \in I BY <1>1
<1> HIDE DEF I, J
<1>6. \A u \in S \ {t} : g[u] \in J
  <2> TAKE u \in S \ {t}
  <2>1. f[u] # f[t] BY <1>1
  <2> QED BY <1>3, <1>5, <2>1
<1>7. \A i \in J : \E u \in S \ {t} : g[u] = i
  <2> TAKE i \in J
  <2>1. i \in I /\ i # m + 1 BY <1>3, <1>4
  <2>2. PICK u \in S : f[u] = i BY <1>1, <2>1 DEF I
  <2>3. CASE u # t BY <2>1, <2>2, <2>3
  <2>4. CASE u = t
    <3>1. PICK v \in S : f[v] = m + 1 BY <1>1, <1>4 DEF I
    <3>2. v # t BY <2>1, <2>2, <2>4, <3>1
    <3> QED BY <2>2, <2>4, <3>1, <3>2
  <2> QED BY <2>3, <2>4
<1>8. \A u, v \in S \ {t} : g[u] = g[v] => u = v
  <2> TAKE u, v \in S \ {t}
  <2>1. f[u] # f[t] /\ f[v] # f[t] BY <1>1
  <2> QED BY <1>1, <2>1
<1>9. g \in [S \ {t} -> J] BY <1>6
<1> HIDE DEF g
<1> QED BY <1>2, <1>7, <1>8, <1>9 DEF AsMany, J

(* A thread pushes an event to its buffer, which is open, with a kind that *)
(* is known unless the source is hasty.                                    *)
LEMMA PushFacts ==
    ASSUME SubStreamsInv, src = "alive", NEW t \in Threads, tpc[t] \in {"run", "fork"},
           PushEvent(t), UNCHANGED hasty
    PROVE  /\ shm' \in [Numbers -> Buffers] /\ \A n \in Numbers : Len(shm'[n].ring) <= Cap
           /\ \A n \in Numbers : /\ shm'[n].destroyed = shm[n].destroyed
                                 /\ shm'[n].attached = shm[n].attached
                                 /\ shm'[n].registered = shm[n].registered
           /\ \A n \in Numbers : Dead(n) => Dead(n)'
           /\ KindsKnown' /\ ~InInit /\ ~shm[t].destroyed
<1>i. ShapeInv /\ SourceInv /\ NameInv /\ StreamsInv /\ KindInv /\ ReadyInv
  BY DEF SubStreamsInv
<1>0. no[t] = t /\ ~InInit BY Numbering
<1>1. ~shm[t].destroyed BY <1>i DEF SourceInv, ThreadInv
<1>2. Len(shm[t].ring) < Cap /\ shm' = [shm EXCEPT ![t].ring = Append(shm[t].ring, cached)]
  BY <1>0 DEF PushEvent
<1> DEFINE r == Append(shm[t].ring, cached)
           b == [shm[t] EXCEPT !.ring = r]
<1>3. shm' = [shm EXCEPT ![t] = b] BY <1>2
<1>4. /\ shm \in [Numbers -> Buffers] /\ cached \in BOOLEAN /\ shm[t].ring \in Seq(BOOLEAN)
      /\ \A n \in Numbers : Len(shm[n].ring) <= Cap
  BY <1>i, Sets, BufferTypes, Zenon DEF ShapeInv
<1>5. /\ r \in Seq(BOOLEAN) /\ Len(r) = Len(shm[t].ring) + 1 /\ Len(shm[t].ring) \in Nat
      /\ DOMAIN r = 1..(Len(shm[t].ring) + 1) /\ DOMAIN shm[t].ring = 1..Len(shm[t].ring)
      /\ r[Len(shm[t].ring) + 1] = cached
      /\ \A i \in 1..Len(shm[t].ring) : r[i] = shm[t].ring[i]
  BY <1>4
<1>6. Len(r) <= Cap
  <2> DEFINE l == Len(shm[t].ring)
  <2>1. l \in Nat /\ l < Cap /\ Len(r) = l + 1 BY <1>2, <1>5
  <2> HIDE DEF l, r
  <2> QED BY Sets, <2>1
<1>7. \A i \in DOMAIN r : r[i] = cached \/ \E j \in DOMAIN shm[t].ring : r[i] = shm[t].ring[j]
  <2> DEFINE l == Len(shm[t].ring)
  <2>1. l \in Nat /\ DOMAIN r = 1..(l + 1) /\ DOMAIN shm[t].ring = 1..l
        /\ r[l + 1] = cached /\ \A i \in 1..l : r[i] = shm[t].ring[i]
    BY <1>5
  <2> HIDE DEF l, r
  <2>2. \A i \in 1..(l + 1) : i = l + 1 \/ i \in 1..l BY <2>1
  <2> QED BY <2>1, <2>2
<1> HIDE DEF r
<1>8. /\ b \in Buffers /\ b.ring = r /\ b.destroyed = shm[t].destroyed
      /\ b.attached = shm[t].attached /\ b.registered = shm[t].registered
  BY Sets, <1>4, <1>5 DEF Buffers
<1> HIDE DEF b
<1>9. /\ shm' \in [Numbers -> Buffers] /\ shm'[t] = b
      /\ \A n \in Numbers : n # t => shm'[n] = shm[n]
  BY Sets, <1>3, <1>4, <1>8
<1>10. KindsKnown'
  <2> SUFFICES ASSUME ~hasty, NEW n \in Numbers, NEW i \in DOMAIN shm'[n].ring
               PROVE  shm'[n].ring[i]
    BY DEF KindsKnown
  <2>1. cached BY <1>i, <1>0 DEF KindInv
  <2>2. \A k \in Numbers : \A j \in DOMAIN shm[k].ring : shm[k].ring[j]
    BY <1>i DEF KindInv, KindsKnown
  <2>3. CASE n = t BY <1>7, <1>8, <1>9, <2>1, <2>2, <2>3, Zenon
  <2>4. CASE n # t BY <1>9, <2>2, <2>4
  <2> QED BY <2>3, <2>4
<1>11. \A n \in Numbers : Dead(n) => Dead(n)' BY <1>1, <1>9 DEF Dead
<1>12. \A n \in Numbers : Len(shm'[n].ring) <= Cap BY <1>4, <1>6, <1>8, <1>9
<1>13. \A n \in Numbers : /\ shm'[n].destroyed = shm[n].destroyed
                          /\ shm'[n].attached = shm[n].attached
                          /\ shm'[n].registered = shm[n].registered
  BY <1>8, <1>9
<1> QED BY <1>0, <1>1, <1>9, <1>10, <1>11, <1>12, <1>13 DEF SubStreamsInv

(* In the steps that follow main is past __tsan_init: the names, what the *)
(* monitor has seen and the kinds.                                        *)
LEMMA RunMoves ==
    ASSUME SubStreamsInv, src = "alive", src' = "alive", ~InInit, ~InInit',
           UNCHANGED <<ids, nameVars, subbuffers_no, monVars, cached, hasty, overlap>>,
           tpc[0] = "fini" => tpc'[0] = "fini",
           \A u \in Creators' : u \in Creators /\ child'[u] = child[u] /\ tpc'[u] = tpc[u],
           \A n \in Numbers : /\ n = 0 => shm'[n].destroyed = shm[n].destroyed
                              /\ shm'[n].attached = shm[n].attached
                              /\ shm'[n].registered = shm[n].registered,
           \A n \in Numbers : Dead(n) => Dead(n)', KindsKnown'
    PROVE  NameInv' /\ StreamsInv' /\ KindInv' /\ ReadyInv'
<1>i. ShapeInv /\ SourceInv /\ NameInv /\ StreamsInv /\ KindInv /\ ReadyInv
  BY DEF SubStreamsInv
<1>1. MonitorOver' = MonitorOver BY DEF MonitorOver, monVars
<1>2. NameInv'
  <2>1. 0 \in ctrls \/ tpc'[0] = "fini" BY <1>i DEF NameInv, InInit
  <2>2. ~(tpc'[0] \in {"ctrl", "buf"} /\ child'[0] = 0) BY DEF InInit
  <2> QED BY <1>i, Sets, <1>1, <2>1, <2>2 DEF NameInv, ids, nameVars, monVars
<1>3. StreamsInv' BY <1>i, StreamsKept DEF nameVars
<1>4. KindInv'
  <2>1. ControlWritten'
    <3>1. shm'[0].attached = shm[0].attached BY Sets, Zenon
    <3> QED BY <1>i, <3>1, Zenon DEF KindInv, ControlWritten, monVars
  <2>2. tpc'[0] \notin {"sleep", "cache"} /\ ~(tpc'[0] \in {"ctrl", "buf"} /\ child'[0] = 0)
    BY DEF InInit
  <2> QED BY <1>i, Sets, <2>1, <2>2 DEF KindInv, Registers, monVars
<1>5. ReadyInv' BY <1>i, Sets, ReadyKept DEF nameVars
<1> QED BY <1>2, <1>3, <1>4, <1>5 DEF SubStreamsInv

(* An access or a lock operation is reported. *)
LEMMA AccessStep ==
    ASSUME SubStreamsInv, NEW t \in Threads, Access(t)
    PROVE  SubStreamsInv'
<1>i. ShapeInv /\ SourceInv /\ NameInv /\ StreamsInv /\ KindInv /\ ReadyInv
  BY DEF SubStreamsInv
<1>0. /\ src = "alive" /\ tpc[t] = "run" /\ Spent < Budget /\ PushEvent(t) /\ reported' = reported + 1
      /\ UNCHANGED <<tpc, child, no, ids, cached, src, nameVars, subbuffers_no, monVars,
                     hasty, overlap>>
  BY DEF Access, At, history
<1>1. /\ shm' \in [Numbers -> Buffers] /\ \A n \in Numbers : Len(shm'[n].ring) <= Cap
      /\ \A n \in Numbers : /\ shm'[n].destroyed = shm[n].destroyed
                            /\ shm'[n].attached = shm[n].attached
                            /\ shm'[n].registered = shm[n].registered
      /\ \A n \in Numbers : Dead(n) => Dead(n)'
      /\ KindsKnown' /\ ~InInit
  BY <1>0, PushFacts
<1>2. Creators' = Creators /\ InInit' = InInit BY <1>0 DEF Creators, InInit
<1>3. ShapeInv'
  <2>0. /\ last_thread_id \in Nat /\ last_thread_id >= 1 /\ reported \in Nat
        /\ last_thread_id' = last_thread_id /\ last_subbufer_no' = last_subbufer_no
    BY <1>i, <1>0, Zenon DEF ShapeInv, ids
  <2>1. reported' \in Nat /\ Spent' <= Budget BY <1>0, <2>0, Sets DEF Spent
  <2> QED BY <1>i, <1>0, <1>1, <2>0, <2>1, SourceShape, Zenon DEF ShapeInv, Pcs, nameVars
<1>4. SourceInv'
  <2>1. /\ tpc' = tpc /\ child' = child /\ no' = no /\ src' = src
        /\ last_thread_id' = last_thread_id /\ last_subbufer_no' = last_subbufer_no
        /\ subbuffers_no' = subbuffers_no /\ overlap' = overlap
    BY <1>0, Zenon DEF ids
  <2>2. /\ \A n \in Threads : shm'[n].destroyed = shm[n].destroyed
        /\ shm'[0].destroyed = shm[0].destroyed
    BY <1>1, Sets, Zenon
  <2>3. ThreadInv' <=> ThreadInv BY <1>2, <2>1, <2>2 DEF ThreadInv
  <2> QED BY <1>i, <2>1, <2>2, <2>3, Zenon DEF SourceInv
<1>5. NameInv' /\ StreamsInv' /\ KindInv' /\ ReadyInv'
  BY <1>0, <1>1, <1>2, RunMoves
<1> QED BY <1>3, <1>4, <1>5 DEF SubStreamsInv

(* The new thread is reported; its creator goes on. *)
LEMMA CreatedStep ==
    ASSUME SubStreamsInv, NEW t \in Threads, __vrd_thrd_created(t)
    PROVE  SubStreamsInv'
<1>i. ShapeInv /\ SourceInv /\ NameInv /\ StreamsInv /\ KindInv /\ ReadyInv
  BY DEF SubStreamsInv
<1>0. /\ src = "alive" /\ tpc[t] = "fork" /\ PushEvent(t)
      /\ child' = [child EXCEPT ![t] = 0] /\ tpc' = [tpc EXCEPT ![t] = "run"]
      /\ UNCHANGED <<no, ids, reported, cached, src, nameVars, subbuffers_no, monVars,
                     hasty, overlap>>
  BY Zenon DEF __vrd_thrd_created, At, Goto, history
<1>1. /\ shm' \in [Numbers -> Buffers] /\ \A n \in Numbers : Len(shm'[n].ring) <= Cap
      /\ \A n \in Numbers : /\ shm'[n].destroyed = shm[n].destroyed
                            /\ shm'[n].attached = shm[n].attached
                            /\ shm'[n].registered = shm[n].registered
      /\ \A n \in Numbers : Dead(n) => Dead(n)'
      /\ KindsKnown' /\ ~InInit /\ ~shm[t].destroyed
  BY <1>0, PushFacts
<1>2. tpc \in [Threads -> Pcs] /\ child \in [Threads -> Threads] BY <1>i DEF ShapeInv, Pcs
<1>3. /\ tpc'[t] = "run" /\ child'[t] = 0
      /\ \A u \in Threads : u # t => tpc'[u] = tpc[u] /\ child'[u] = child[u]
      /\ tpc' \in [Threads -> Pcs] /\ child' \in [Threads -> Threads]
  BY Sets, <1>0, <1>2 DEF Pcs
<1>4. Creators' = Creators BY <1>0, <1>3 DEF Creators, Creating
<1>5. ~InInit' BY <1>1, <1>3 DEF InInit
<1>6. ShapeInv' BY <1>i, <1>0, <1>1, <1>3 DEF ShapeInv, Spent, ids, monVars, nameVars, Pcs
<1>7. SourceInv'
  <2>1. /\ ThreadInv /\ last_thread_id' = last_thread_id /\ last_subbufer_no' = last_subbufer_no
        /\ no' = no /\ overlap' = overlap /\ subbuffers_no' = subbuffers_no /\ src' = "alive"
    BY <1>i, <1>0 DEF SourceInv, ids
  <2>2. t < last_thread_id BY <1>0, Numbering
  <2>3. \A u \in Creators : child[u] # t /\ child[u] \in Threads /\ u # t /\ u \in Threads
    BY <1>0, <1>2, <2>1 DEF ThreadInv, Creators, Creating
  <2>4. ASSUME NEW u \in Threads
        PROVE  (/\ no[u] = IF u < last_thread_id THEN u ELSE 0
                /\ u >= last_thread_id => tpc[u] = "none"
                /\ u # 0 => tpc[u] \notin {"wait", "sleep", "cache", "fini"}
                /\ tpc[u] \in Creating \cup {"fork"} => child[u] # 0 \/ (u = 0 /\ InInit)
                /\ child[u] # 0 => /\ tpc[u] \in Creating \cup {"fork"}
                                   /\ child[u] < last_thread_id
                /\ u \in Creators => tpc[child[u]] = "none"
                /\ shm[u].destroyed => tpc[u] \in {"exited", "gone", "fini"})'
    <3>1. CASE u = t
      <4>1. ~(u >= last_thread_id) BY <1>i, Sets, <2>2, <3>1 DEF ShapeInv
      <4> QED BY Sets, <1>1, <1>3, <1>4, <2>1, <2>3, <3>1, <4>1 DEF ThreadInv, Creating
    <3>2. CASE u # t
      <4>1. /\ no[u] = IF u < last_thread_id THEN u ELSE 0
            /\ u >= last_thread_id => tpc[u] = "none"
            /\ u # 0 => tpc[u] \notin {"wait", "sleep", "cache", "fini"}
            /\ tpc[u] \in Creating \cup {"fork"} => child[u] # 0 \/ (u = 0 /\ InInit)
            /\ child[u] # 0 => /\ tpc[u] \in Creating \cup {"fork"}
                               /\ child[u] < last_thread_id
            /\ u \in Creators => tpc[child[u]] = "none"
            /\ shm[u].destroyed => tpc[u] \in {"exited", "gone", "fini"}
        BY <2>1, Zenon DEF ThreadInv
      <4>2. u \in Creators => tpc'[child[u]] = "none" BY <1>3, <2>3, <4>1, Zenon
      <4>3. shm'[u].destroyed = shm[u].destroyed BY <1>1, Sets
      <4> QED BY <1>1, <1>3, <1>4, <2>1, <3>2, <4>1, <4>2, <4>3
    <3> QED BY <3>1, <3>2
  <2>5. (/\ last_subbufer_no = last_thread_id - 1
         /\ \A v, u \in Threads : child[v] # 0 /\ child[v] = child[u] => v = u
         /\ tpc[0] \notin {"none", "exited", "gone"}
         /\ InInit => last_thread_id = 1
         /\ tpc[0] = "fini" => shm[0].destroyed /\ Creators = {}
         /\ AsMany(Creators, subbuffers_no, last_subbufer_no)
         /\ ~overlap => \A v \in Creators : child[v] = last_subbufer_no)'
    <3>1. \A v, u \in Threads : child'[v] # 0 /\ child'[v] = child'[u] => v = u
      <4>1. \A v, u \in Threads : child[v] # 0 /\ child[v] = child[u] => v = u
        BY <2>1 DEF ThreadInv
      <4> QED BY <1>3, <4>1
    <3>2. \A v \in Creators : child'[v] = child[v] BY <1>3, <2>3
    <3>3. tpc'[0] \notin {"none", "exited", "gone"} /\ (tpc'[0] = "fini" => tpc[0] = "fini")
      BY <1>3, <2>1 DEF ThreadInv
    <3> QED BY Sets, <1>1, <1>4, <1>5, <2>1, <3>1, <3>2, <3>3 DEF ThreadInv
  <2> HIDE DEF InInit, Creators
  <2>6. ThreadInv' BY <2>4, <2>5, Zenon DEF ThreadInv
  <2> QED BY <2>1, <2>6 DEF SourceInv
<1>8. NameInv' /\ StreamsInv' /\ KindInv' /\ ReadyInv'
  <2>1. \A u \in Creators' : u \in Creators /\ child'[u] = child[u] /\ tpc'[u] = tpc[u]
    BY <1>0, <1>3, <1>4 DEF Creators, Creating
  <2>2. tpc[0] = "fini" => tpc'[0] = "fini" BY <1>0, <1>3
  <2> QED BY <1>0, <1>1, <1>5, <2>1, <2>2, RunMoves
<1> QED BY <1>6, <1>7, <1>8 DEF SubStreamsInv

(* A thread joins another one. *)
LEMMA JoinedStep ==
    ASSUME SubStreamsInv, NEW t \in Threads, NEW c \in Threads, Joined(t, c)
    PROVE  SubStreamsInv'
<1>i. ShapeInv /\ SourceInv /\ NameInv /\ StreamsInv /\ KindInv /\ ReadyInv
  BY DEF SubStreamsInv
<1>0. /\ src = "alive" /\ tpc[t] = "run" /\ c # 0 /\ tpc[c] = "exited"
      /\ Spent < Budget /\ PushEvent(t) /\ reported' = reported + 1
      /\ tpc' = [tpc EXCEPT ![c] = "gone"]
      /\ UNCHANGED <<child, no, ids, cached, src, nameVars, subbuffers_no, monVars,
                     hasty, overlap>>
  BY DEF Joined, At, Goto, history
<1>1. /\ shm' \in [Numbers -> Buffers] /\ \A n \in Numbers : Len(shm'[n].ring) <= Cap
      /\ \A n \in Numbers : /\ shm'[n].destroyed = shm[n].destroyed
                            /\ shm'[n].attached = shm[n].attached
                            /\ shm'[n].registered = shm[n].registered
      /\ \A n \in Numbers : Dead(n) => Dead(n)'
      /\ KindsKnown' /\ ~InInit
  BY <1>0, PushFacts
<1>2. tpc \in [Threads -> Pcs] /\ child \in [Threads -> Threads] BY <1>i DEF ShapeInv, Pcs
<1>3. /\ tpc'[c] = "gone" /\ \A u \in Threads : u # c => tpc'[u] = tpc[u]
      /\ tpc' \in [Threads -> Pcs]
  BY <1>0, <1>2 DEF Pcs
<1>4. Creators' = Creators BY <1>0, <1>3 DEF Creators, Creating
<1>5. InInit' = InInit BY <1>0, <1>3 DEF InInit
<1>6. ShapeInv'
  <2>1. reported' \in Nat /\ Spent' <= Budget BY <1>i, Sets, <1>0 DEF ShapeInv, Spent, ids
  <2> QED BY <1>i, <1>0, <1>1, <1>3, <2>1 DEF ShapeInv, ids, monVars, nameVars, Pcs
<1>7. SourceInv'
  <2>1. child[c] = 0 /\ (tpc[0] \in Creating \cup {"fork"} => child[0] # 0 \/ InInit)
    BY <1>i, Sets, <1>0 DEF SourceInv, ThreadInv, Creating
  <2>2. "gone" \in Pcs /\ "gone" \notin Creating \cup {"fork"} BY DEF Pcs, Creating
  <2>3. last_thread_id' = last_thread_id /\ last_subbufer_no' = last_subbufer_no BY <1>0, Zenon DEF ids
  <2> QED BY Sets, <1>0, <1>1, <1>4, <1>5, <2>1, <2>2, <2>3, ThreadsKept, Zenon
<1>8. NameInv' /\ StreamsInv' /\ KindInv' /\ ReadyInv'
  <2>1. \A u \in Creators' : u \in Creators /\ child'[u] = child[u] /\ tpc'[u] = tpc[u]
    BY <1>0, <1>3, <1>4 DEF Creators, Creating
  <2>2. tpc[0] = "fini" => tpc'[0] = "fini" BY <1>0, <1>3
  <2> QED BY <1>0, <1>1, <1>5, <2>1, <2>2, RunMoves, Zenon
<1> QED BY <1>6, <1>7, <1>8 DEF SubStreamsInv

(* A buffer of the source is closed. *)
LEMMA CloseFacts ==
    ASSUME ShapeInv, NEW n \in Numbers, shm' = [shm EXCEPT ![n].destroyed = TRUE]
    PROVE  /\ shm' \in [Numbers -> Buffers] /\ \A k \in Numbers : Len(shm'[k].ring) <= Cap
           /\ shm'[n].destroyed /\ \A k \in Numbers : k # n => shm'[k].destroyed = shm[k].destroyed
           /\ \A k \in Numbers : /\ shm'[k].ring = shm[k].ring
                                 /\ shm'[k].attached = shm[k].attached
                                 /\ shm'[k].registered = shm[k].registered
           /\ \A k \in Numbers : Dead(k) => Dead(k)'
<1> DEFINE b == [shm[n] EXCEPT !.destroyed = TRUE]
<1>1. shm' = [shm EXCEPT ![n] = b] OBVIOUS
<1>2. shm \in [Numbers -> Buffers] /\ \A k \in Numbers : Len(shm[k].ring) <= Cap BY DEF ShapeInv
<1>3. /\ b \in Buffers /\ b.ring = shm[n].ring /\ b.destroyed
      /\ b.attached = shm[n].attached /\ b.registered = shm[n].registered
  BY <1>2, Zenon DEF Buffers
<1> HIDE DEF b
<1>4. /\ shm' \in [Numbers -> Buffers] /\ shm'[n] = b
      /\ \A k \in Numbers : k # n => shm'[k] = shm[k]
  BY <1>1, <1>2, <1>3, Zenon
<1>5. \A k \in Numbers : shm'[k].ring = shm[k].ring BY <1>3, <1>4
<1>6. \A k \in Numbers : Dead(k) => Dead(k)' BY <1>3, <1>4 DEF Dead
<1>7. \A k \in Numbers : Len(shm'[k].ring) <= Cap BY <1>2, <1>5
<1> QED BY <1>3, <1>4, <1>5, <1>6, <1>7

(* A thread exits and closes its sub-buffer. *)
LEMMA ExitThreadStep ==
    ASSUME SubStreamsInv, NEW t \in Threads, ExitThread(t)
    PROVE  SubStreamsInv'
<1>i. ShapeInv /\ SourceInv /\ NameInv /\ StreamsInv /\ KindInv /\ ReadyInv
  BY DEF SubStreamsInv
<1>0. /\ src = "alive" /\ tpc[t] = "run" /\ t # 0
      /\ shm' = [shm EXCEPT ![t].destroyed = TRUE] /\ tpc' = [tpc EXCEPT ![t] = "exited"]
      /\ UNCHANGED <<child, no, ids, reported, cached, src, nameVars, subbuffers_no, monVars,
                     hasty, overlap>>
  <2>1. src = "alive" /\ tpc[t] = "run" BY DEF ExitThread, At
  <2>2. no[t] = t BY <2>1, Numbering
  <2> QED BY <2>1, <2>2 DEF ExitThread, Goto, locals, history
<1>1. /\ shm' \in [Numbers -> Buffers] /\ \A k \in Numbers : Len(shm'[k].ring) <= Cap
      /\ shm'[t].destroyed /\ \A k \in Numbers : k # t => shm'[k].destroyed = shm[k].destroyed
      /\ \A k \in Numbers : /\ shm'[k].ring = shm[k].ring
                            /\ shm'[k].attached = shm[k].attached
                            /\ shm'[k].registered = shm[k].registered
      /\ \A k \in Numbers : Dead(k) => Dead(k)'
  BY <1>i, Sets, <1>0, CloseFacts, Zenon
<1>2. tpc \in [Threads -> Pcs] BY <1>i DEF ShapeInv, Pcs
<1>3. /\ tpc'[t] = "exited" /\ \A u \in Threads : u # t => tpc'[u] = tpc[u]
      /\ tpc' \in [Threads -> Pcs]
  BY <1>0, <1>2 DEF Pcs
<1>4. Creators' = Creators BY <1>0, <1>3 DEF Creators, Creating
<1>5. InInit' = InInit /\ ~InInit
  <2>1. ~InInit BY <1>0, Numbering
  <2> QED BY <1>0, <1>3, <2>1 DEF InInit
<1>6. ShapeInv' BY <1>i, <1>0, <1>1, <1>3, Zenon DEF ShapeInv, Spent, ids, monVars, nameVars, Pcs
<1>7. SourceInv'
  <2>1. child[t] = 0 /\ (tpc[0] \in Creating \cup {"fork"} => child[0] # 0 \/ InInit)
    BY <1>i, Sets, <1>0 DEF SourceInv, ThreadInv, Creating
  <2>2. "exited" \in Pcs /\ "exited" \notin Creating \cup {"fork"} BY DEF Pcs, Creating
  <2>3. /\ src = "alive" /\ tpc[t] # "none" /\ tpc' = [tpc EXCEPT ![t] = "exited"]
        /\ UNCHANGED <<child, no, last_thread_id, last_subbufer_no, src, subbuffers_no, overlap>>
    BY <1>0 DEF ids
  <2>4. \A n \in Threads : n # t => shm'[n].destroyed = shm[n].destroyed BY Sets, <1>1
  <2>5. "exited" \notin {"none", "wait", "sleep", "cache", "fini"} /\ t # 0 BY <1>0
  <2> QED BY <1>4, <1>5, <2>1, <2>2, <2>3, <2>4, <2>5, ThreadsKept, Zenon
<1>8. NameInv' /\ StreamsInv' /\ KindInv' /\ ReadyInv'
  <2>1. \A u \in Creators' : u \in Creators /\ child'[u] = child[u] /\ tpc'[u] = tpc[u]
    BY <1>0, <1>3, <1>4 DEF Creators, Creating
  <2>2. tpc[0] = "fini" => tpc'[0] = "fini" BY <1>0, <1>3
  <2>3. KindsKnown' BY <1>i, <1>0, <1>1 DEF KindInv, KindsKnown
  <2>4. \A n \in Numbers : /\ n = 0 => shm'[n].destroyed = shm[n].destroyed
                           /\ shm'[n].attached = shm[n].attached
                           /\ shm'[n].registered = shm[n].registered
    BY <1>0, <1>1, Zenon
  <2> QED BY <1>0, <1>1, <1>5, <2>1, <2>2, <2>3, <2>4, RunMoves, Zenon
<1> QED BY <1>6, <1>7, <1>8 DEF SubStreamsInv

(* Main exits: the names of the top buffer go, those of the sub-buffers   *)
(* stay, and every number that was taken was counted.                     *)
LEMMA ExitMainStep ==
    ASSUME SubStreamsInv, ExitMain
    PROVE  SubStreamsInv'
<1>i. ShapeInv /\ SourceInv /\ NameInv /\ StreamsInv /\ KindInv /\ ReadyInv
  BY DEF SubStreamsInv
<1>0. /\ src = "alive" /\ tpc[0] = "run" /\ \A t \in Threads : tpc[t] \notin Creating
      /\ tpc' = [tpc EXCEPT ![0] = "fini"]
      /\ bufs' = bufs \ {0} /\ ctrls' = ctrls \ {0}
      /\ UNCHANGED <<child, no, ids, reported, cached, src, subbuffers_no, monVars,
                     hasty, overlap>>
  BY DEF ExitMain, At, Goto, destroy_shared_buffer, destroy_shared_control_buffer, locals, history
<1>1. /\ shm' \in [Numbers -> Buffers] /\ \A k \in Numbers : Len(shm'[k].ring) <= Cap
      /\ shm'[0].destroyed /\ \A k \in Numbers : k # 0 => shm'[k].destroyed = shm[k].destroyed
      /\ \A k \in Numbers : /\ shm'[k].ring = shm[k].ring
                            /\ shm'[k].attached = shm[k].attached
                            /\ shm'[k].registered = shm[k].registered
      /\ \A k \in Numbers : Dead(k) => Dead(k)'
  BY <1>i, Sets, CloseFacts, Zenon DEF ExitMain, destroy_shared_buffer
<1>2. tpc \in [Threads -> Pcs] BY <1>i DEF ShapeInv, Pcs
<1>3. /\ tpc'[0] = "fini" /\ \A u \in Threads : u # 0 => tpc'[u] = tpc[u]
      /\ tpc' \in [Threads -> Pcs]
  BY Sets, <1>0, <1>2 DEF Pcs
<1>4. Creators' = Creators /\ Creators = {} BY <1>0, <1>3 DEF Creators, Creating
<1>5. InInit' = InInit /\ ~InInit BY <1>0, <1>3, Zenon DEF InInit
<1>6. ShapeInv' BY <1>i, <1>0, <1>1, <1>3 DEF ShapeInv, Spent, ids, monVars, Pcs
<1>7. SourceInv'
  <2>1. child[0] = 0 BY <1>i, Sets, <1>0 DEF SourceInv, ThreadInv, Creating
  <2>2. "fini" \in Pcs /\ "fini" \notin Creating \cup {"fork"} BY DEF Pcs, Creating
  <2>3. /\ src = "alive" /\ tpc[0] # "none" /\ tpc' = [tpc EXCEPT ![0] = "fini"]
        /\ UNCHANGED <<child, no, last_thread_id, last_subbufer_no, src, subbuffers_no, overlap>>
    BY <1>0 DEF ids
  <2>4. \A n \in Threads : n # 0 => shm'[n].destroyed = shm[n].destroyed BY Sets, <1>1
  <2> QED BY Sets, <1>1, <1>4, <1>5, <2>1, <2>2, <2>3, <2>4, ThreadsKept, ZenonT(40)
<1>8. NameInv'
  <2>1. MonitorOver' = MonitorOver BY <1>0 DEF MonitorOver, monVars
  <2>2. bufs \cup ctrls \subseteq 0..last_subbufer_no BY <1>i, <1>0 DEF NameInv
  <2>3. last_subbufer_no = subbuffers_no /\ subbuffers_no \in Nat
    <3>1. AsMany({}, subbuffers_no, last_subbufer_no) BY <1>i, <1>0, <1>4 DEF SourceInv, ThreadInv
    <3>2. subbuffers_no \in Nat /\ last_subbufer_no \in Nat BY <1>i, Sets DEF ShapeInv
    <3> QED BY <3>1, <3>2, AsManyZero
  <2>4. bufs' \cup ctrls' \subseteq 1..subbuffers_no
    <3>1. \A n \in 0..subbuffers_no : n # 0 => n \in 1..subbuffers_no BY <2>3
    <3> QED BY <1>0, <2>2, <2>3, <3>1
  <2>5. bufs' \cup ctrls' \subseteq 0..last_subbufer_no BY <1>0, <2>2
  <2>6. /\ ~MonitorOver => bufs' \ {0} \subseteq ctrls'
        /\ ~MonitorOver /\ ~overlap => 1..subbuffers_no \subseteq bufs'
    <3>1. 0 \notin 1..subbuffers_no OBVIOUS
    <3> QED BY <1>i, <1>0, <3>1 DEF NameInv
  <2> QED BY <1>0, <1>3, <1>4, <2>1, <2>4, <2>5, <2>6 DEF NameInv, ids
<1>9. StreamsInv'
  <2>1. \A n \in bufs : n # 0 => n \in bufs' BY <1>0, Zenon
  <2> QED BY <1>i, <1>0, <2>1, StreamsKept
<1>10. KindInv'
  <2>1. KindsKnown' /\ ControlWritten'
    BY <1>i, Sets, <1>0, <1>1, Zenon DEF KindInv, KindsKnown, ControlWritten, monVars
  <2> QED BY <1>i, Sets, <1>0, <1>1, <1>3, <1>5, <2>1, Zenon DEF KindInv, Registers, monVars
<1>11. ReadyInv'
  <2>1. bufs' \cup ctrls' \subseteq bufs \cup ctrls BY <1>0
  <2> QED BY <1>i, <1>0, <1>1, <2>1, ReadyKept
<1> QED BY <1>6, <1>7, <1>8, <1>9, <1>10, <1>11 DEF SubStreamsInv

(* The process is gone: what is left is in the shared memory. *)
LEMMA ProcessEndsFacts ==
    ASSUME SubStreamsInv, NEW how \in {"ended", "crashed"}, ProcessEnds(how),
           shm' \in [Numbers -> Buffers], shm'[0].destroyed,
           \A k \in Numbers : /\ shm[k].destroyed => shm'[k].destroyed
                              /\ shm'[k].ring = shm[k].ring
                              /\ shm'[k].attached = shm[k].attached
                              /\ shm'[k].registered = shm[k].registered,
           bufs' \subseteq bufs, ctrls' \subseteq ctrls, \A n \in bufs : n # 0 => n \in bufs',
           \A n \in ctrls : n # 0 => n \in ctrls', ~InInit \/ how = "crashed", src = "alive",
           how = "ended" => shm[0].destroyed
    PROVE  SubStreamsInv'
<1>i. ShapeInv /\ SourceInv /\ NameInv /\ StreamsInv /\ KindInv /\ ReadyInv
  BY DEF SubStreamsInv
<1>0. /\ src' = how /\ tpc' = [t \in Threads |-> "gone"] /\ child' = [t \in Threads |-> 0]
      /\ no' = [t \in Threads |-> 0] /\ last_thread_id' = 1 /\ last_subbufer_no' = 0
      /\ reported' = 0 /\ cached' = FALSE
      /\ UNCHANGED <<subbuffers_no, monVars, hasty, overlap>>
  BY Zenon DEF ProcessEnds, history
<1>1. ShapeInv'
  <2>1. \A k \in Numbers : Len(shm'[k].ring) <= Cap BY <1>i, Zenon DEF ShapeInv
  <2>2. Spent' = 0 BY <1>0 DEF Spent
  <2>3. /\ tpc' \in [Threads -> Pcs] /\ child' \in [Threads -> Threads] /\ no' \in [Threads -> Numbers]
        /\ src' \in {"alive", "ended", "crashed"} /\ cached' \in BOOLEAN
    BY Sets, <1>0, Zenon DEF Pcs
  <2>4. /\ bufs' \subseteq Numbers /\ ctrls' \subseteq Numbers /\ subbuffers_no' \in Numbers
        /\ hasty' \in BOOLEAN /\ overlap' \in BOOLEAN
    BY <1>i, <1>0 DEF ShapeInv
  <2>5. /\ last_thread_id' \in Nat /\ last_thread_id' >= 1 /\ last_subbufer_no' \in Nat
        /\ reported' \in Nat /\ Spent' <= Budget
    BY Sets, <1>0, <2>2
  <2> QED BY <1>i, <1>0, <2>1, <2>3, <2>4, <2>5, SourceShape
<1>2. SourceInv' BY <1>0 DEF SourceInv
<1>3. NameInv'
  <2>1. MonitorOver' = MonitorOver BY <1>0 DEF MonitorOver, monVars
  <2>2. how = "ended" /\ mpc # "hollow" => bufs' \cup ctrls' \subseteq 1..subbuffers_no
    BY <1>i DEF NameInv
  <2>3. /\ ~MonitorOver => bufs' \ {0} \subseteq ctrls'
        /\ ~MonitorOver /\ ~overlap => 1..subbuffers_no \subseteq bufs'
    <3>1. 0 \notin 1..subbuffers_no OBVIOUS
    <3> QED BY <1>i, <3>1, Zenon DEF NameInv
  <2> QED BY <1>0, <2>1, <2>2, <2>3, Zenon DEF NameInv, monVars
<1>4. StreamsInv' BY <1>i, <1>0, StreamsKept, Zenon
<1>5. KindInv'
  <2>1. KindsKnown' BY <1>i, <1>0, Zenon DEF KindInv, KindsKnown
  <2>2. ControlWritten'
    <3>1. shm'[0].attached = shm[0].attached BY Sets, Zenon
    <3>2. src # "crashed" BY Zenon
    <3> QED BY <1>i, <1>0, <3>1, <3>2, Zenon DEF KindInv, ControlWritten, monVars
  <2>3. mpc \in {"open", "openctrl", "attach"} /\ cur = 0 => hasty \/ how = "crashed"
    BY <1>i, Zenon DEF KindInv
  <2> QED BY <1>i, Sets, <1>0, <2>1, <2>2, <2>3, Zenon DEF KindInv, Registers, monVars
<1>6. ReadyInv'
  <2>1. \A n \in Numbers : Dead(n) => Dead(n)' BY DEF Dead
  <2>2. bufs' \cup ctrls' \subseteq bufs \cup ctrls BY Zenon
  <2> QED BY <1>i, <1>0, <2>1, <2>2, ReadyKept
<1> QED BY <1>1, <1>2, <1>3, <1>4, <1>5, <1>6, Zenon DEF SubStreamsInv

(* __vrd_fini ends the process when the top buffer is closed. *)
LEMMA FiniStep ==
    ASSUME SubStreamsInv, __vrd_fini
    PROVE  SubStreamsInv'
<1>i. ShapeInv /\ SourceInv /\ NameInv /\ StreamsInv /\ KindInv /\ ReadyInv
  BY DEF SubStreamsInv
<1> DEFINE Shut(n) == \E t \in {u \in Threads \ {0} : tpc[u] \notin {"none", "exited", "gone"}} : no[t] = n
<1>0. /\ src = "alive" /\ tpc[0] = "fini" /\ ProcessEnds("ended") /\ UNCHANGED nameVars
      /\ shm' = [n \in Numbers |-> IF Shut(n) THEN [shm[n] EXCEPT !.destroyed = TRUE] ELSE shm[n]]
  BY DEF __vrd_fini, At
<1> HIDE DEF Shut
<1>1. shm \in [Numbers -> Buffers] BY <1>i DEF ShapeInv
<1>2. \A b \in Buffers : /\ [b EXCEPT !.destroyed = TRUE] \in Buffers
                         /\ [b EXCEPT !.destroyed = TRUE].destroyed
                         /\ [b EXCEPT !.destroyed = TRUE].ring = b.ring
                         /\ [b EXCEPT !.destroyed = TRUE].attached = b.attached
                         /\ [b EXCEPT !.destroyed = TRUE].registered = b.registered
  BY Zenon DEF Buffers
<1>3. ASSUME NEW k \in Numbers
      PROVE  /\ shm'[k] \in Buffers /\ (shm[k].destroyed => shm'[k].destroyed)
             /\ shm'[k].ring = shm[k].ring /\ shm'[k].attached = shm[k].attached
             /\ shm'[k].registered = shm[k].registered
  <2> DEFINE b == [shm[k] EXCEPT !.destroyed = TRUE]
  <2>1. /\ b \in Buffers /\ b.destroyed /\ b.ring = shm[k].ring
        /\ b.attached = shm[k].attached /\ b.registered = shm[k].registered
    BY <1>1, <1>2
  <2>2. shm'[k] = b \/ shm'[k] = shm[k] BY <1>0
  <2> HIDE DEF b
  <2> QED BY <1>1, <2>1, <2>2
<1>4. shm' \in [Numbers -> Buffers]
  <2>1. shm' = [n \in Numbers |-> shm'[n]] BY <1>0
  <2> QED BY <1>3, <2>1
<1>5. shm[0].destroyed /\ ~InInit BY <1>i, <1>0 DEF SourceInv, ThreadInv, InInit
<1>6. /\ bufs' \subseteq bufs /\ ctrls' \subseteq ctrls /\ \A n \in bufs : n # 0 => n \in bufs'
      /\ \A n \in ctrls : n # 0 => n \in ctrls'
  BY <1>0 DEF nameVars
<1>7. shm'[0].destroyed BY Sets, <1>3, <1>5
<1>8. src = "alive" /\ ProcessEnds("ended") BY <1>0, Zenon
<1> QED BY <1>3, <1>4, <1>5, <1>6, <1>7, <1>8, ProcessEndsFacts DEF SubStreamsInv

(* The handler of a fatal signal closes the top buffer and ends the process. *)
LEMMA CrashStep ==
    ASSUME SubStreamsInv, Crash
    PROVE  SubStreamsInv'
<1>i. ShapeInv /\ SourceInv /\ NameInv /\ StreamsInv /\ KindInv /\ ReadyInv
  BY DEF SubStreamsInv
<1>0. /\ src = "alive" /\ ProcessEnds("crashed") /\ bufs' = bufs \ {0} /\ ctrls' = ctrls \ {0}
  BY DEF Crash, destroy_shared_buffer, destroy_shared_control_buffer
<1>1. /\ shm' \in [Numbers -> Buffers] /\ shm'[0].destroyed
      /\ \A k \in Numbers : k # 0 => shm'[k].destroyed = shm[k].destroyed
      /\ \A k \in Numbers : /\ shm'[k].ring = shm[k].ring
                            /\ shm'[k].attached = shm[k].attached
                            /\ shm'[k].registered = shm[k].registered
  BY <1>i, Sets, CloseFacts, Zenon DEF Crash, destroy_shared_buffer
<1>2. \A k \in Numbers : shm[k].destroyed => shm'[k].destroyed BY <1>1
<1>3. /\ bufs' \subseteq bufs /\ ctrls' \subseteq ctrls /\ \A n \in bufs : n # 0 => n \in bufs'
      /\ \A n \in ctrls : n # 0 => n \in ctrls'
  BY <1>0
<1> QED BY <1>0, <1>1, <1>2, <1>3, ProcessEndsFacts DEF SubStreamsInv

-----------------------------------------------------------------------------
(* The creation of a thread: numbers that are taken and numbers that are   *)
(* counted.                                                                *)

(* A thread takes the next number, for the thread it creates and for the  *)
(* sub-buffer alike, and becomes a creator.                               *)
LEMMA TakeNumberSource ==
    ASSUME SubStreamsInv, NEW t \in Threads, TakeNumber(t)
    PROVE  SourceInv' /\ ~InInit /\ ~InInit' /\ Creators' = Creators \cup {t}
<1>i. ShapeInv /\ SourceInv /\ NameInv /\ StreamsInv /\ KindInv /\ ReadyInv
  BY DEF SubStreamsInv
<1> DEFINE c == last_thread_id
<1>0. /\ src = "alive" /\ tpc[t] = "run" /\ ~shm[0].destroyed /\ Spent < Budget
      /\ child' = [child EXCEPT ![t] = c] /\ last_thread_id' = c + 1
      /\ last_subbufer_no' = last_subbufer_no + 1
      /\ no' = [no EXCEPT ![c] = last_subbufer_no + 1]
      /\ overlap' = (overlap \/ \E u \in Threads \ {t} : tpc[u] \in Creating)
      /\ tpc' = [tpc EXCEPT ![t] = "ctrl"]
      /\ UNCHANGED <<src, nameVars, shm, subbuffers_no, monVars, hasty>>
  BY DEF TakeNumber, At, Goto
<1>1. c \in Nat /\ c >= 1 /\ c \in Threads /\ t < c /\ t \in Nat /\ last_subbufer_no + 1 = c
      /\ last_subbufer_no \in Nat
  <2>1. c \in Nat /\ c >= 1 /\ reported \in Nat /\ last_subbufer_no \in Nat BY <1>i DEF ShapeInv
  <2>2. c - 1 + reported < Budget BY <1>0 DEF Spent
  <2>3. t < c /\ last_subbufer_no = c - 1 BY <1>0, Numbering
  <2>4. c \in Threads BY Sets, <2>1, <2>2
  <2> QED BY Sets, <2>1, <2>3, <2>4
<1>2. /\ tpc \in [Threads -> Pcs] /\ child \in [Threads -> Threads] /\ no \in [Threads -> Numbers]
  BY <1>i DEF ShapeInv, Pcs
<1>3. ThreadInv BY <1>i, <1>0, Zenon DEF SourceInv
<1>4. tpc[c] = "none" /\ child[t] = 0 /\ c # t /\ child[c] = 0 /\ c # 0
  BY <1>0, <1>1, <1>3 DEF ThreadInv, Creating
<1>5. /\ tpc'[t] = "ctrl" /\ child'[t] = c /\ no'[c] = c
      /\ \A u \in Threads : u # t => tpc'[u] = tpc[u] /\ child'[u] = child[u]
      /\ \A u \in Threads : u # c => no'[u] = no[u]
  BY <1>0, <1>1, <1>2
<1>6. ~InInit BY <1>0, Numbering
<1>7. ~InInit' BY Sets, <1>4, <1>5, <1>6 DEF InInit
<1>8. Creators' = Creators \cup {t}
  <2>1. ASSUME NEW u \in Threads PROVE u \in Creators' <=> u \in Creators \/ u = t
    <3>1. CASE u = t BY <1>4, <1>5, <3>1 DEF Creators, Creating
    <3>2. CASE u # t BY <1>5, <3>2 DEF Creators
    <3> QED BY <3>1, <3>2
  <2>2. Creators' \subseteq Threads /\ Creators \subseteq Threads BY DEF Creators
  <2> QED BY <2>1, <2>2
<1>9. t \notin Creators BY <1>4 DEF Creators
<1>10. AsMany(Creators', subbuffers_no, last_subbufer_no + 1)
  <2>1. AsMany(Creators, subbuffers_no, last_subbufer_no) BY <1>3 DEF ThreadInv
  <2>2. subbuffers_no \in Nat BY <1>i, Sets, Zenon DEF ShapeInv
  <2> HIDE DEF Creators
  <2> QED BY <1>1, <1>8, <1>9, <2>1, <2>2, AsManyTake, Zenon
<1>11. ASSUME NEW u \in Threads
       PROVE  (/\ no[u] = IF u < last_thread_id THEN u ELSE 0
               /\ u >= last_thread_id => tpc[u] = "none"
               /\ u # 0 => tpc[u] \notin {"wait", "sleep", "cache", "fini"}
               /\ tpc[u] \in Creating \cup {"fork"} => child[u] # 0 \/ (u = 0 /\ InInit)
               /\ child[u] # 0 => /\ tpc[u] \in Creating \cup {"fork"}
                                  /\ child[u] < last_thread_id
               /\ u \in Creators => tpc[child[u]] = "none"
               /\ shm[u].destroyed => tpc[u] \in {"exited", "gone", "fini"})'
  <2>1. /\ no[u] = IF u < c THEN u ELSE 0
        /\ u >= c => tpc[u] = "none"
        /\ u # 0 => tpc[u] \notin {"wait", "sleep", "cache", "fini"}
        /\ tpc[u] \in Creating \cup {"fork"} => child[u] # 0 \/ (u = 0 /\ InInit)
        /\ child[u] # 0 => tpc[u] \in Creating \cup {"fork"} /\ child[u] < c
        /\ u \in Creators => tpc[child[u]] = "none"
        /\ shm[u].destroyed => tpc[u] \in {"exited", "gone", "fini"}
    BY <1>3 DEF ThreadInv
  <2>2. no'[u] = IF u < c + 1 THEN u ELSE 0
    <3>1. CASE u = c BY <1>1, <1>5, <3>1
    <3>2. CASE u # c BY <1>1, <1>5, <2>1, <3>2
    <3> QED BY <3>1, <3>2
  <2>3. u >= c + 1 => tpc'[u] = "none" BY <1>1, <1>5, <2>1
  <2>4. child'[u] # 0 => tpc'[u] \in Creating \cup {"fork"} /\ child'[u] < c + 1
    <3>1. CASE u = t BY <1>1, <1>5, <3>1 DEF Creating
    <3>2. CASE u # t
      <4> DEFINE d == child[u]
      <4>1. d \in Nat /\ (d # 0 => d < c) BY Sets, <1>2, <2>1
      <4> HIDE DEF d
      <4>2. d # 0 => d < c + 1 BY <1>1, <4>1
      <4> QED BY <1>5, <2>1, <3>2, <4>2 DEF d
    <3> QED BY <3>1, <3>2
  <2>5. u \in Creators' => tpc'[child'[u]] = "none"
    <3>1. CASE u = t BY <1>1, <1>4, <1>5, <3>1
    <3>2. CASE u # t
      <4>1. u \in Creators' => u \in Creators /\ child[u] \in Threads BY <1>2, <1>8, <3>2, Zenon
      <4>2. u \in Creators => child[u] # t BY <1>0, <2>1
      <4> QED BY <1>5, <2>1, <3>2, <4>1, <4>2
    <3> QED BY <3>1, <3>2
  <2>6. /\ u # 0 => tpc'[u] \notin {"wait", "sleep", "cache", "fini"}
        /\ tpc'[u] \in Creating \cup {"fork"} => child'[u] # 0 \/ (u = 0 /\ InInit')
        /\ shm[u].destroyed => tpc'[u] \in {"exited", "gone", "fini"}
    <3>1. CASE u = t BY <1>0, <1>4, <1>5, <2>1, <3>1
    <3>2. CASE u # t BY <1>5, <1>6, <2>1, <3>2, Zenon
    <3> QED BY <3>1, <3>2, Zenon
  <2> QED BY <1>0, <2>2, <2>3, <2>4, <2>5, <2>6
<1>12. (/\ last_subbufer_no = last_thread_id - 1
        /\ \A v, u \in Threads : child[v] # 0 /\ child[v] = child[u] => v = u
        /\ tpc[0] \notin {"none", "exited", "gone"}
        /\ InInit => last_thread_id = 1
        /\ tpc[0] = "fini" => shm[0].destroyed /\ Creators = {}
        /\ AsMany(Creators, subbuffers_no, last_subbufer_no)
        /\ ~overlap => \A v \in Creators : child[v] = last_subbufer_no)'
  <2>1. last_subbufer_no' = last_thread_id' - 1 BY <1>0, <1>1
  <2>2. ASSUME NEW v \in Threads, NEW u \in Threads, child'[v] # 0, child'[v] = child'[u]
        PROVE  v = u
    <3>1. child[v] # c /\ child[u] # c
      <4>1. \A x \in Threads : child[x] # 0 => child[x] < c BY <1>3 DEF ThreadInv
      <4>2. ~(c < c) BY <1>1
      <4> QED BY <1>4, <4>1, <4>2
    <3>2. CASE v = t BY <1>5, <2>2, <3>1, <3>2, Zenon
    <3>3. CASE v # t
      <4>1. u # t BY <1>5, <2>2, <3>1, <3>3, Zenon
      <4> QED BY <1>3, <1>5, <2>2, <3>3, <4>1 DEF ThreadInv
    <3> QED BY <3>2, <3>3
  <2>3. tpc'[0] \notin {"none", "exited", "gone", "fini"}
    BY <1>0, <1>3, <1>5 DEF ThreadInv
  <2>4. AsMany(Creators', subbuffers_no', last_subbufer_no') BY <1>0, <1>10
  <2>5. ~overlap' => \A v \in Creators' : child'[v] = last_subbufer_no + 1
    <3>1. ~overlap' => Creators = {} BY <1>0, <1>9, ZenonT(40) DEF Creators
    <3> QED BY <1>1, <1>5, <1>8, <3>1
  <2> QED BY <1>0, <1>7, <2>1, <2>2, <2>3, <2>4, <2>5
<1> HIDE DEF InInit, Creators
<1>13. ThreadInv' BY <1>11, <1>12 DEF ThreadInv
<1> QED BY <1>0, <1>6, <1>7, <1>8, <1>13, Zenon DEF SourceInv, SubStreamsInv

(* The rest of the invariant when a number is taken. *)
LEMMA TakeNumberStep ==
    ASSUME SubStreamsInv, NEW t \in Threads, TakeNumber(t)
    PROVE  SubStreamsInv'
<1>i. ShapeInv /\ SourceInv /\ NameInv /\ StreamsInv /\ KindInv /\ ReadyInv
  BY DEF SubStreamsInv
<1> DEFINE c == last_thread_id
<1>0. /\ src = "alive" /\ tpc[t] = "run" /\ ~shm[0].destroyed /\ Spent < Budget
      /\ child' = [child EXCEPT ![t] = c] /\ last_thread_id' = c + 1
      /\ last_subbufer_no' = last_subbufer_no + 1
      /\ no' = [no EXCEPT ![c] = last_subbufer_no + 1]
      /\ tpc' = [tpc EXCEPT ![t] = "ctrl"]
      /\ UNCHANGED <<src, reported, cached, nameVars, shm, subbuffers_no, monVars, hasty>>
  BY DEF TakeNumber, At, Goto
<1>a. overlap' \in BOOLEAN /\ (overlap => overlap') BY Zenon DEF TakeNumber
<1>b. SourceInv' /\ ~InInit /\ ~InInit' /\ Creators' = Creators \cup {t} BY TakeNumberSource
<1>c. /\ tpc \in [Threads -> Pcs] /\ child \in [Threads -> Threads] /\ no \in [Threads -> Numbers]
      /\ c \in Nat /\ c >= 1 /\ last_subbufer_no \in Nat /\ reported \in Nat
  BY <1>i DEF ShapeInv, Pcs
<1>d. c \in Threads /\ last_subbufer_no = c - 1
  <2>1. c - 1 + reported < Budget BY <1>0 DEF Spent
  <2>2. last_subbufer_no = c - 1 BY <1>0, Numbering
  <2> QED BY Sets, <1>c, <2>1, <2>2
<1>e. /\ tpc'[t] = "ctrl" /\ child'[t] = c
      /\ \A u \in Threads : u # t => tpc'[u] = tpc[u] /\ child'[u] = child[u]
  BY <1>0, <1>c
<1>1. ShapeInv'
  <2>1. /\ tpc' \in [Threads -> Pcs] /\ child' \in [Threads -> Threads] /\ no' \in [Threads -> Numbers]
    <3>1. last_subbufer_no + 1 \in Numbers BY Sets, <1>c, <1>d
    <3> QED BY <1>0, <1>c, <1>d, <3>1 DEF Pcs
  <2>2. /\ last_thread_id' \in Nat /\ last_thread_id' >= 1 /\ last_subbufer_no' \in Nat
        /\ Spent' <= Budget
    <3>1. c - 1 + reported < Budget BY <1>0 DEF Spent
    <3>2. last_thread_id' = c + 1 /\ reported' = reported BY <1>0
    <3>3. Spent' = ((c + 1) - 1) + reported BY <3>2, Zenon DEF Spent
    <3>4. last_subbufer_no' = last_subbufer_no + 1 BY <1>0, Zenon
    <3> QED BY Sets, <1>c, <3>1, <3>2, <3>3, <3>4
  <2> QED BY <1>i, <1>0, <1>a, <2>1, <2>2, SourceShape, ZenonT(40) DEF ShapeInv, nameVars
<1>2. NameInv'
  <2>1. MonitorOver' = MonitorOver BY <1>0 DEF MonitorOver, monVars
  <2>2. bufs \cup ctrls \subseteq 0..(last_subbufer_no + 1)
    <3>1. \A n \in 0..last_subbufer_no : n \in 0..(last_subbufer_no + 1) BY <1>c
    <3> QED BY <1>i, <1>0, <3>1 DEF NameInv
  <2>3. ~(tpc'[0] \in {"ctrl", "buf"} /\ child'[0] = 0) BY <1>b, Zenon DEF InInit
  <2>4. 0 \in ctrls \/ tpc'[0] = "fini"
    <3>1. 0 \in ctrls \/ tpc[0] = "fini" BY <1>i, <1>0, <1>b, Zenon DEF NameInv, InInit
    <3> QED BY <1>0, <1>e, <3>1
  <2>5. ~MonitorOver => \A u \in Creators' : /\ tpc'[u] = "buf" => child'[u] \in ctrls
                                             /\ tpc'[u] = "count" => child'[u] \in bufs
    <3>1. \A u \in Creators' : u = t \/ (u \in Creators /\ u \in Threads) BY <1>b DEF Creators
    <3> QED BY <1>i, <1>0, <1>e, <3>1, Zenon DEF NameInv
  <2>6. /\ ~MonitorOver => bufs \ {0} \subseteq ctrls
        /\ ~MonitorOver /\ ~overlap' => 1..subbuffers_no \subseteq bufs
    BY <1>i, <1>a DEF NameInv
  <2> QED BY <1>0, <2>1, <2>2, <2>3, <2>4, <2>5, <2>6 DEF NameInv, nameVars
<1>3. StreamsInv' BY <1>i, <1>0, <1>a, StreamsKept, Zenon DEF nameVars
<1>4. KindInv'
  <2>1. KindsKnown' /\ ControlWritten'
    BY <1>i, <1>0 DEF KindInv, KindsKnown, ControlWritten, monVars
  <2>2. tpc'[0] \notin {"sleep", "cache"} /\ ~(tpc'[0] \in {"ctrl", "buf"} /\ child'[0] = 0)
    BY <1>b DEF InInit
  <2> QED BY <1>i, <1>0, <1>b, <2>1, <2>2, ZenonT(30) DEF KindInv, Registers, monVars
<1>5. ReadyInv'
  <2>1. \A n \in Numbers : Dead(n) => Dead(n)' BY <1>0 DEF Dead
  <2> QED BY <1>i, <1>0, <2>1, ReadyKept, Zenon
<1> QED BY <1>1, <1>b, <1>2, <1>3, <1>4, <1>5, Zenon DEF SubStreamsInv

(* A sub-buffer is counted and its thread starts: one creator fewer. *)
LEMMA CountSource ==
    ASSUME SubStreamsInv, NEW t \in Threads, CountAndStart(t)
    PROVE  /\ SourceInv' /\ ~InInit /\ ~InInit' /\ Creators' = Creators \ {t} /\ t \in Creators
           /\ child[t] \in Threads /\ child[t] # 0 /\ child[t] # t
           /\ subbuffers_no + 1 <= Budget
           /\ (~overlap => subbuffers_no + 1 = last_subbufer_no /\ child[t] = last_subbufer_no)
<1>i. ShapeInv /\ SourceInv /\ NameInv /\ StreamsInv /\ KindInv /\ ReadyInv
  BY DEF SubStreamsInv
<1> DEFINE c == child[t]
<1>0. /\ src = "alive" /\ tpc[t] = "count" /\ subbuffers_no' = subbuffers_no + 1
      /\ tpc' = [tpc EXCEPT ![t] = "fork", ![c] = "run"]
      /\ UNCHANGED <<child, no, last_thread_id, last_subbufer_no, src, shm, overlap>>
  BY Zenon DEF CountAndStart, At, __vrd_thrd_entry, locals, ids, history
<1>1. ThreadInv BY <1>i, <1>0, Zenon DEF SourceInv
<1>2. /\ tpc \in [Threads -> Pcs] /\ child \in [Threads -> Threads] /\ no \in [Threads -> Numbers]
      /\ subbuffers_no \in Nat /\ last_subbufer_no \in Nat /\ last_thread_id \in Nat
  BY <1>i, Sets DEF ShapeInv, Pcs
<1>3. c # 0 /\ c \in Threads /\ t \in Creators /\ tpc[c] = "none" /\ c # t /\ c < last_thread_id
  <2>1. c # 0 BY <1>0, <1>1 DEF ThreadInv, InInit, Creating
  <2>2. t \in Creators BY <1>0, <2>1, Zenon DEF Creators, Creating
  <2>3. tpc[c] = "none" /\ c < last_thread_id BY <1>1, <2>1, <2>2, Zenon DEF ThreadInv
  <2> QED BY <1>0, <1>2, <2>1, <2>2, <2>3, Zenon
<1>4. /\ tpc'[t] = "fork" /\ tpc'[c] = "run"
      /\ \A u \in Threads : u # t /\ u # c => tpc'[u] = tpc[u]
  BY <1>0, <1>2, <1>3
<1>5. ~InInit
  <2>1. c \in Nat /\ c # 0 /\ c < last_thread_id BY Sets, <1>3
  <2> HIDE DEF c
  <2>2. last_thread_id # 1 BY <1>2, <2>1
  <2> QED BY <1>1, <2>2 DEF ThreadInv
<1>6. ~InInit'
  <2>1. CASE t = 0 BY <1>4, <2>1 DEF InInit
  <2>2. CASE t # 0 BY Sets, <1>0, <1>3, <1>4, <1>5, <2>2, ZenonT(40) DEF InInit
  <2> QED BY <2>1, <2>2
<1>7. Creators' = Creators \ {t}
  <2>1. ASSUME NEW u \in Threads PROVE u \in Creators' <=> u \in Creators /\ u # t
    <3>1. CASE u = t BY <1>4, <3>1 DEF Creators, Creating
    <3>2. CASE u = c BY <1>3, <1>4, <3>2 DEF Creators, Creating
    <3>3. CASE u # t /\ u # c BY <1>0, <1>4, <3>3, Zenon DEF Creators
    <3> QED BY <3>1, <3>2, <3>3
  <2>2. Creators' \subseteq Threads /\ Creators \subseteq Threads BY DEF Creators
  <2> QED BY <2>1, <2>2, Zenon
<1>8. AsMany(Creators, subbuffers_no, last_subbufer_no) BY <1>1 DEF ThreadInv
<1>9. subbuffers_no + 1 <= last_subbufer_no /\ AsMany(Creators', subbuffers_no + 1, last_subbufer_no)
  <2>1. t \in Creators BY <1>3
  <2> HIDE DEF Creators
  <2> QED BY <1>2, <1>7, <1>8, <2>1, AsManyCount
<1>10. subbuffers_no + 1 <= last_subbufer_no /\ last_subbufer_no <= Budget
  <2>1. last_subbufer_no <= Budget BY <1>0, Numbering
  <2> QED BY <1>9, <2>1
<1>11. ~overlap => subbuffers_no + 1 = last_subbufer_no /\ c = last_subbufer_no
  <2> SUFFICES ASSUME ~overlap PROVE subbuffers_no + 1 = last_subbufer_no /\ c = last_subbufer_no
    OBVIOUS
  <2>1. \A u \in Creators : child[u] = last_subbufer_no BY <1>1 DEF ThreadInv
  <2>2. \A u \in Creators : u \in Threads BY Zenon DEF Creators
  <2>3. \A u \in Creators : u = t BY <1>1, <1>3, <2>1, <2>2 DEF ThreadInv
  <2>4. Creators' = {} BY <1>7, <2>3
  <2>5. AsMany({}, subbuffers_no + 1, last_subbufer_no) BY <1>9, <2>4
  <2>6. subbuffers_no + 1 = last_subbufer_no BY <1>2, <2>5, AsManyZero
  <2> QED BY <1>3, <2>1, <2>6
<1>12. ASSUME NEW u \in Threads
       PROVE  (/\ no[u] = IF u < last_thread_id THEN u ELSE 0
               /\ u >= last_thread_id => tpc[u] = "none"
               /\ u # 0 => tpc[u] \notin {"wait", "sleep", "cache", "fini"}
               /\ tpc[u] \in Creating \cup {"fork"} => child[u] # 0 \/ (u = 0 /\ InInit)
               /\ child[u] # 0 => /\ tpc[u] \in Creating \cup {"fork"}
                                  /\ child[u] < last_thread_id
               /\ u \in Creators => tpc[child[u]] = "none"
               /\ shm[u].destroyed => tpc[u] \in {"exited", "gone", "fini"})'
  <2>1. /\ no[u] = IF u < last_thread_id THEN u ELSE 0
        /\ u >= last_thread_id => tpc[u] = "none"
        /\ u # 0 => tpc[u] \notin {"wait", "sleep", "cache", "fini"}
        /\ tpc[u] \in Creating \cup {"fork"} => child[u] # 0 \/ (u = 0 /\ InInit)
        /\ child[u] # 0 => tpc[u] \in Creating \cup {"fork"} /\ child[u] < last_thread_id
        /\ u \in Creators => tpc[child[u]] = "none"
        /\ shm[u].destroyed => tpc[u] \in {"exited", "gone", "fini"}
    BY <1>1 DEF ThreadInv
  <2>2. u \in Creators' => tpc'[child[u]] = "none"
    <3> SUFFICES ASSUME u \in Creators' PROVE tpc'[child[u]] = "none" OBVIOUS
    <3>1. u \in Creators /\ u # t /\ child[u] \in Threads /\ child[u] # 0
      BY <1>2, <1>7, Zenon DEF Creators
    <3>2. child[u] # c BY <1>1, <1>3, <3>1 DEF ThreadInv
    <3>3. child[u] # t BY <1>0, <2>1, <3>1, Zenon
    <3> QED BY <1>4, <2>1, <3>1, <3>2, <3>3
  <2>3. CASE u = t
    <3>1. ~(u >= last_thread_id) BY <1>0, <2>1, <2>3, Zenon
    <3> QED BY <1>0, <1>3, <1>4, <2>1, <2>2, <2>3, <3>1, Zenon
  <2>4. CASE u = c
    <3>1. ~(u >= last_thread_id) BY Sets, <1>2, <1>3, <2>4
    <3>2. child[u] = 0 /\ ~shm[u].destroyed BY <1>3, <2>1, <2>4 DEF Creating
    <3> QED BY <1>0, <1>3, <1>4, <2>1, <2>2, <2>4, <3>1, <3>2, Zenon DEF Creating
  <2>5. CASE u # t /\ u # c BY <1>0, <1>4, <1>5, <2>1, <2>2, <2>5, ZenonT(40)
  <2> QED BY <2>3, <2>4, <2>5, Zenon
<1>13. (/\ last_subbufer_no = last_thread_id - 1
        /\ \A v, u \in Threads : child[v] # 0 /\ child[v] = child[u] => v = u
        /\ tpc[0] \notin {"none", "exited", "gone"}
        /\ InInit => last_thread_id = 1
        /\ tpc[0] = "fini" => shm[0].destroyed /\ Creators = {}
        /\ AsMany(Creators, subbuffers_no, last_subbufer_no)
        /\ ~overlap => \A v \in Creators : child[v] = last_subbufer_no)'
  <2>1. tpc'[0] \notin {"none", "exited", "gone"} /\ (tpc'[0] = "fini" => tpc[0] = "fini")
    BY Sets, <1>1, <1>3, <1>4, Zenon DEF ThreadInv
  <2>2. tpc[0] # "fini" BY <1>1, <1>3, Zenon DEF ThreadInv
  <2>3. ~overlap => \A v \in Creators' : child[v] = last_subbufer_no BY <1>1, <1>7 DEF ThreadInv
  <2>4. AsMany(Creators', subbuffers_no', last_subbufer_no') BY <1>0, <1>9, Zenon
  <2> QED BY <1>0, <1>1, <1>6, <2>1, <2>2, <2>3, <2>4 DEF ThreadInv
<1>14. ThreadInv'
  <2> HIDE DEF InInit, Creators
  <2> QED BY <1>12, <1>13 DEF ThreadInv
<1>15. subbuffers_no + 1 <= Budget BY Sets, <1>2, <1>10
<1> QED BY <1>0, <1>3, <1>5, <1>6, <1>7, <1>11, <1>14, <1>15, Zenon DEF SourceInv, SubStreamsInv

(* The rest of the invariant when a sub-buffer is counted: without an     *)
(* overlap the last number is the one counted, and it has its names.      *)
LEMMA CountAndStartStep ==
    ASSUME SubStreamsInv, NEW t \in Threads, CountAndStart(t)
    PROVE  SubStreamsInv'
<1>i. ShapeInv /\ SourceInv /\ NameInv /\ StreamsInv /\ KindInv /\ ReadyInv
  BY DEF SubStreamsInv
<1> DEFINE c == child[t]
<1>0. /\ src = "alive" /\ tpc[t] = "count" /\ subbuffers_no' = subbuffers_no + 1
      /\ tpc' = [tpc EXCEPT ![t] = "fork", ![c] = "run"]
      /\ UNCHANGED <<child, no, ids, reported, cached, src, nameVars, shm, monVars, hasty,
                     overlap>>
  BY Zenon DEF CountAndStart, At, __vrd_thrd_entry, locals, history
<1>a. /\ SourceInv' /\ ~InInit /\ ~InInit' /\ Creators' = Creators \ {t} /\ t \in Creators
      /\ c \in Threads /\ c # 0 /\ c # t /\ subbuffers_no + 1 <= Budget
      /\ (~overlap => subbuffers_no + 1 = last_subbufer_no /\ c = last_subbufer_no)
  BY CountSource, Zenon
<1>b. ~shm[0].destroyed BY <1>0, TopOpen DEF Creating
<1>c. tpc \in [Threads -> Pcs] /\ subbuffers_no \in Nat BY <1>i, Sets, Zenon DEF ShapeInv, Pcs
<1> HIDE DEF c
<1>d. /\ tpc'[t] = "fork" /\ tpc'[c] = "run"
      /\ \A u \in Threads : u # t /\ u # c => tpc'[u] = tpc[u]
      /\ tpc' \in [Threads -> Pcs]
  BY <1>0, <1>a, <1>c DEF Pcs
<1>1. ShapeInv'
  <2>1. subbuffers_no' \in Numbers BY Sets, <1>0, <1>a, <1>c
  <2>2. Spent' = Spent BY <1>0 DEF Spent, ids
  <2> QED BY <1>i, <1>0, <1>d, <2>1, <2>2, ZenonT(40) DEF ShapeInv, nameVars, ids, monVars, Pcs
<1>2. NameInv'
  <2>1. MonitorOver' = MonitorOver BY <1>0, Zenon DEF MonitorOver, monVars
  <2>2. ~(tpc'[0] \in {"ctrl", "buf"} /\ child[0] = 0) BY <1>0, <1>a DEF InInit
  <2>3. 0 \in ctrls \/ tpc'[0] = "fini"
    <3>1. 0 \in ctrls \/ tpc[0] = "fini" BY <1>i, <1>0, <1>a, Zenon DEF NameInv, InInit
    <3> QED BY Sets, <1>0, <1>a, <1>d, <3>1, Zenon
  <2>4. ~MonitorOver => \A u \in Creators' : /\ tpc'[u] = "buf" => child[u] \in ctrls
                                             /\ tpc'[u] = "count" => child[u] \in bufs
    <3>1. \A u \in Creators' : u \in Creators /\ u \in Threads /\ u # t BY <1>a DEF Creators
    <3> QED BY <1>i, <1>0, <1>d, <3>1, ZenonT(30) DEF NameInv
  <2>5. ~MonitorOver /\ ~overlap => 1..(subbuffers_no + 1) \subseteq bufs
    <3> SUFFICES ASSUME ~MonitorOver, ~overlap PROVE 1..(subbuffers_no + 1) \subseteq bufs
      BY Zenon
    <3>1. c \in bufs BY <1>i, <1>0, <1>a DEF NameInv, c
    <3>2. c = subbuffers_no + 1 BY <1>a
    <3>3. \A n \in 1..(subbuffers_no + 1) : n \in 1..subbuffers_no \/ n = subbuffers_no + 1
      BY <1>c
    <3>4. 1..subbuffers_no \subseteq bufs BY <1>i, Zenon DEF NameInv
    <3> QED BY <3>1, <3>2, <3>3, <3>4
  <2>6. /\ bufs \cup ctrls \subseteq 0..last_subbufer_no
        /\ ~MonitorOver => bufs \ {0} \subseteq ctrls
    BY <1>i, <1>0 DEF NameInv
  <2> QED BY <1>0, <1>b, <2>1, <2>2, <2>3, <2>4, <2>5, <2>6, ZenonT(40) DEF NameInv, nameVars, ids
<1>3. StreamsInv' BY <1>i, <1>0, StreamsKept, Zenon DEF nameVars
<1>4. KindInv'
  <2>1. KindsKnown' /\ ControlWritten'
    BY <1>i, <1>0 DEF KindInv, KindsKnown, ControlWritten, monVars
  <2>2. tpc'[0] \notin {"sleep", "cache"} /\ ~(tpc'[0] \in {"ctrl", "buf"} /\ child'[0] = 0)
    BY <1>a, Zenon DEF InInit
  <2> QED BY <1>i, <1>0, <1>a, <2>1, <2>2, Zenon DEF KindInv, Registers, monVars
<1>5. ReadyInv'
  <2>1. \A n \in Numbers : Dead(n) => Dead(n)' BY <1>0 DEF Dead
  <2> QED BY <1>i, <1>0, <1>b, <2>1, ReadyKept, Zenon
<1> QED BY <1>1, <1>a, <1>2, <1>3, <1>4, <1>5, Zenon DEF SubStreamsInv

(* The invariant holds at the start. *)
LEMMA SubStreamsInit ==
    ASSUME Init PROVE SubStreamsInv
<1> USE Sets DEF Init
<1>a. InInit /\ Creators = {} BY DEF InInit, Creators, Creating
<1>b. DOMAIN streams = {} OBVIOUS
<1>1. ShapeInv
  <2>1. Spent = 0 BY DEF Spent
  <2>2. shm \in [Numbers -> Buffers] BY DEF Buffers
  <2>3. \A n \in Numbers : Len(shm[n].ring) <= Cap OBVIOUS
  <2>4. tpc \in [Threads -> Pcs] BY Zenon DEF Pcs
  <2>5. child \in [Threads -> Threads] /\ no \in [Threads -> Numbers] /\ pend \in [Numbers -> Nat]
    <3>1. 0 \in Threads /\ 0 \in Numbers /\ 0 \in Nat BY Zenon
    <3>2. child \in [Threads -> Threads] BY <3>1, Zenon
    <3>3. no \in [Threads -> Numbers] BY <3>1, Zenon
    <3>4. pend \in [Numbers -> Nat] BY <3>1, Zenon
    <3> QED BY <3>2, <3>3, <3>4, Zenon
  <2>6. /\ last_thread_id = 1 /\ last_subbufer_no = 0 /\ reported = 0 /\ cached \in BOOLEAN
        /\ src = "alive" /\ bufs = {} /\ ctrls = {} /\ subbuffers_no = 0 /\ mpc = "open"
        /\ cur = 0 /\ streams \in Seq(Numbers) /\ substreams_no = 0 /\ chk = 1
        /\ hasty \in BOOLEAN /\ overlap \in BOOLEAN
    <3>1. cached \in BOOLEAN /\ hasty \in BOOLEAN /\ overlap \in BOOLEAN BY Zenon
    <3>2. streams \in Seq(Numbers) OBVIOUS
    <3> QED BY <3>1, <3>2
  <2> HIDE DEF Init
  <2> QED BY <2>1, <2>2, <2>3, <2>4, <2>5, <2>6 DEF ShapeInv, Pcs
<1>2. SourceInv
  <2>1. AsMany(Creators, subbuffers_no, last_subbufer_no) BY <1>a, AsManyNone, Zenon
  <2>2. \A t \in Threads : t < 1 <=> t = 0 OBVIOUS
  <2> QED BY <1>a, <2>1, <2>2 DEF SourceInv, ThreadInv, Creating
<1>3. NameInv BY <1>a DEF NameInv, MonitorOver
<1>4. StreamsInv BY <1>b DEF StreamsInv, MonitorOver
<1>5. KindInv
  <2>1. KindsKnown BY DEF KindsKnown
  <2> QED BY <1>a, <2>1, Zenon DEF KindInv, ControlWritten, Registers
<1>6. ReadyInv BY DEF ReadyInv
<1> QED BY <1>1, <1>2, <1>3, <1>4, <1>5, <1>6, Zenon DEF SubStreamsInv

(* A step that changes nothing keeps the invariant. *)
LEMMA SubStreamsStutter ==
    ASSUME SubStreamsInv, UNCHANGED vars
    PROVE  SubStreamsInv'
<1>i. ShapeInv /\ SourceInv /\ NameInv /\ StreamsInv /\ KindInv /\ ReadyInv
  BY DEF SubStreamsInv
<1> USE DEF vars, srcVars, locals, ids, nameVars, monVars, history
<1>1. InInit' = InInit /\ Creators' = Creators /\ MonitorOver' = MonitorOver
  BY Zenon DEF InInit, Creators, MonitorOver
<1>2. ShapeInv' BY <1>i DEF ShapeInv, Spent
<1>3. SourceInv' BY <1>i, SourceKept, Zenon
<1>4. NameInv' BY <1>i, <1>1, Zenon DEF NameInv
<1>5. StreamsInv' BY <1>i, <1>1, Zenon DEF StreamsInv
<1>6. KindInv' BY <1>i, <1>1, Zenon DEF KindInv, KindsKnown, ControlWritten, Registers
<1>7. ReadyInv' BY <1>i DEF ReadyInv, Dead
<1> QED BY <1>2, <1>3, <1>4, <1>5, <1>6, <1>7 DEF SubStreamsInv

-----------------------------------------------------------------------------
(* Every step keeps the invariant. *)
LEMMA SubStreamsStep ==
    ASSUME SubStreamsInv, [Next]_vars
    PROVE  SubStreamsInv'
<1>1. ASSUME NEW t \in Threads, ThreadStep(t) PROVE SubStreamsInv'
  BY <1>1, ControlBufferStep, SharedBufferStep, TakeNumberStep, CountAndStartStep, CreatedStep,
     AccessStep, ExitThreadStep, JoinedStep DEF ThreadStep
<1>2. ASSUME MainStep PROVE SubStreamsInv'
  BY <1>2, SeeAttachedStep, InterruptWaitStep, SleepOnceMoreStep, CacheKindsStep, ExitMainStep,
     FiniStep, CrashStep DEF MainStep
<1>3. ASSUME MonitorStep PROVE SubStreamsInv'
  BY <1>3, OpenBufferStep, GiveUpStep, OpenControlStep, RegisterStep, AttachStep, NextEvStep,
     ProcessStep, CheckReadyStep, CheckSubStreamsStep, CheckSizeStep, DestroyStep DEF MonitorStep
<1>4. ASSUME NEW n \in Numbers, Forward(n) PROVE SubStreamsInv' BY <1>4, ForwardStep
<1>5. ASSUME UNCHANGED vars PROVE SubStreamsInv' BY <1>5, SubStreamsStutter
<1> QED BY <1>1, <1>2, <1>3, <1>4, <1>5, Zenon DEF Next, Terminated

(* The program and its monitor keep the invariant, for every number of    *)
(* threads and events and every capacity of the buffers.                  *)
THEOREM SubStreamsInvariant == Spec => []SubStreamsInv
<1>1. Init => SubStreamsInv BY SubStreamsInit
<1>2. SubStreamsInv /\ [Next]_vars => SubStreamsInv' BY SubStreamsStep
<1> QED BY <1>1, <1>2, PTL DEF Spec

(* A sub-buffer that was announced is there when the monitor opens it,    *)
(* unless two threads were in create_shared_sub_buffer at once.           *)
THEOREM SubStreamsSubBufferThere == Spec => []SubBufferThere
<1>1. SubStreamsInv => SubBufferThere
  <2> SUFFICES ASSUME SubStreamsInv PROVE SubBufferThere OBVIOUS
  <2>i. ShapeInv /\ SourceInv /\ StreamsInv BY Zenon DEF SubStreamsInv
  <2>1. \A n \in Numbers : /\ Len(shm[n].ring) <= Cap
                           /\ shm[n].destroyed \in BOOLEAN
                           /\ shm[n].attached \in BOOLEAN
                           /\ shm[n].registered \in BOOLEAN
    BY <2>i, BufferTypes DEF ShapeInv
  <2>2. reported \in 0..Budget BY <2>i, Sets DEF ShapeInv, Spent
  <2>3. src = "alive" => subbuffers_no <= last_subbufer_no
    BY <2>i DEF SourceInv, ThreadInv, AsMany
  <2>4. substreams_no <= subbuffers_no /\ (mpc = "failed" /\ cur # 0 => overlap)
    BY <2>i DEF StreamsInv
  <2> QED BY <2>i, <2>1, <2>2, <2>3, <2>4 DEF SubBufferThere, TypeOK, ShapeInv
<1> QED BY <1>1, SubStreamsInvariant, PTL

(* The monitor never maps a control buffer that nobody wrote, unless the  *)
(* source crashed or SIGINT ended its wait.                               *)
THEOREM SubStreamsControlWritten == Spec => []ControlWritten
<1>1. SubStreamsInv => ControlWritten BY DEF SubStreamsInv, KindInv
<1> QED BY <1>1, SubStreamsInvariant, PTL

(* Every event carries the kind that the monitor gave it, unless SIGINT   *)
(* ended the wait for the monitor or the sleep after the wait was over    *)
(* before the monitor had registered its events.                          *)
THEOREM SubStreamsKindsKnown == Spec => []KindsKnown
<1>1. SubStreamsInv => KindsKnown BY Zenon DEF SubStreamsInv, KindInv
<1> QED BY <1>1, SubStreamsInvariant, PTL

(* When shamon_is_ready lets the monitor go, every announced sub-buffer   *)
(* has been opened and every event has been taken.                        *)
THEOREM SubStreamsNothingUnseen == Spec => []NothingUnseen
<1>1. SubStreamsInv => NothingUnseen
  <2> SUFFICES ASSUME SubStreamsInv, mpc = "destroy", NEW n \in 0..subbuffers_no
               PROVE  n \in Opened /\ shm[n].ring = << >> /\ pend[n] = 0
    BY Zenon DEF NothingUnseen
  <2>i. ShapeInv /\ StreamsInv /\ ReadyInv BY Zenon DEF SubStreamsInv
  <2>1. /\ subbuffers_no = substreams_no /\ substreams_no \in Nat
        /\ \A k \in 0..substreams_no : Dead(k) /\ pend[k] = 0
    BY <2>i, Zenon DEF ReadyInv, ShapeInv
  <2>2. Len(streams) = substreams_no + 1 /\ streams \in Seq(Numbers)
    BY <2>i DEF StreamsInv, ShapeInv, MonitorOver
  <2>3. n + 1 \in DOMAIN streams /\ n + 1 - 1 = n BY <2>1, <2>2
  <2>4. streams[n + 1] = n BY <2>i, <2>3 DEF StreamsInv
  <2> QED BY <2>1, <2>3, <2>4, Sets, Zenon DEF Opened, Dead
<1> QED BY <1>1, SubStreamsInvariant, PTL

(* No name is left in the shared memory once both sides ended regularly.  *)
THEOREM SubStreamsNoNameLeft == Spec => []NoNameLeft
<1>1. SubStreamsInv => NoNameLeft BY DEF SubStreamsInv, ReadyInv, NoNameLeft
<1> QED BY <1>1, SubStreamsInvariant, PTL
=============================================================================
