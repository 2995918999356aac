---------------------------- MODULE HistoryProofs ----------------------------
(***************************************************************************)
(* Proofs about the message history of a group (module History), for any   *)
(* number of readers, messages and crashes and any limit.                  *)
(*                                                                         *)
(* Whatever the threads do, no temporary file is left behind, and a read   *)
(* that nothing overlaps shows no more than Limit lines.  When no two      *)
(* operations overlap, the history ends as the messages stored do, in      *)
(* either file, through every step of a crop and through every crash.      *)
(***************************************************************************)
EXTENDS History, Integers, SequenceTheorems, FiniteSetTheorems, TLAPS

(* What the last lines of a file are.                                        *)
LEMMA LastLinesAre ==
    ASSUME NEW S, NEW s \in Seq(S), NEW n \in Nat
    PROVE  /\ LastLines(s, n) \in Seq(S)
           /\ Len(LastLines(s, n)) = IF Len(s) > n THEN n ELSE Len(s)
           /\ \A i \in 0 .. Len(LastLines(s, n)) - 1 :
                 LastLines(s, n)[Len(LastLines(s, n)) - i] = s[Len(s) - i]
  <1>1. CASE Len(s) > n
    <2> DEFINE a == Len(s) - n + 1
               t == SubSeq(s, a, Len(s))
    <2>1. Len(s) \in Nat /\ a \in 1 .. Len(s) + 1 /\ a \in Int /\ Len(s) \in Int
      BY <1>1
    <2>2. \A i \in a .. Len(s) : s[i] \in S
      <3>1. \A i \in a .. Len(s) : i \in 1 .. Len(s)
        BY <2>1
      <3> QED
        BY <3>1
    <2>3. /\ t \in Seq(S)
          /\ Len(t) = IF a <= Len(s) THEN Len(s) - a + 1 ELSE 0
          /\ \A i \in 1 .. Len(s) - a + 1 : t[i] = s[a + i - 1]
      <3> HIDE DEF a
      <3> QED
        BY <2>1, <2>2, SubSeqProperties
    <2>4. Len(t) = n
      BY <1>1, <2>3
    <2>5. ASSUME NEW i \in 0 .. Len(t) - 1 PROVE t[Len(t) - i] = s[Len(s) - i]
      <3>1. /\ Len(t) - i \in 1 .. Len(s) - a + 1
            /\ a + (Len(t) - i) - 1 = Len(s) - i
        BY <1>1, <2>4
      <3>2. t[Len(t) - i] = s[a + (Len(t) - i) - 1]
        BY <2>3, <3>1
      <3> QED
        BY <3>1, <3>2
    <2>6. LastLines(s, n) = t
      BY <1>1 DEF LastLines
    <2> QED
      BY <1>1, <2>3, <2>4, <2>5, <2>6
  <1>2. CASE ~(Len(s) > n)
    BY <1>2 DEF LastLines
  <1> QED
    BY <1>1, <1>2

(* What a file's lines are after one line more.                              *)
LEMMA AppendedLines ==
    ASSUME NEW S, NEW s \in Seq(S), NEW m \in S
    PROVE  /\ Append(s, m) \in Seq(S) /\ Len(Append(s, m)) = Len(s) + 1
           /\ Append(s, m)[Len(s) + 1] = m
           /\ \A i \in 1 .. Len(s) : Append(s, m)[i] = s[i]
           /\ ToSet(s) \subseteq ToSet(Append(s, m))
  <1>1. /\ Append(s, m) \in Seq(S) /\ Len(Append(s, m)) = Len(s) + 1 /\ Len(s) \in Nat
        /\ Append(s, m)[Len(s) + 1] = m /\ \A i \in 1 .. Len(s) : Append(s, m)[i] = s[i]
    BY AppendProperties
  <1>2. DOMAIN Append(s, m) = 1 .. Len(s) + 1 /\ DOMAIN s = 1 .. Len(s)
    BY <1>1
  <1>3. \A x : x \in ToSet(s) => x \in ToSet(Append(s, m))
    BY <1>1, <1>2 DEF ToSet
  <1> QED
    BY <1>1, <1>3

(* Writing a line leaves what is written and still to be written the same.   *)
LEMMA OneLineFurther ==
    ASSUME NEW S, NEW s \in Seq(S), NEW t \in Seq(S), t # <<>>
    PROVE  /\ Append(s, Head(t)) \o Tail(t) = s \o t
           /\ Len(Append(s, Head(t))) + Len(Tail(t)) = Len(s) + Len(t)
           /\ Head(t) \in S /\ Tail(t) \in Seq(S)
           /\ Len(t) = 1 <=> Tail(t) = <<>>
  <1>1. /\ Head(t) \in S /\ Tail(t) \in Seq(S) /\ Len(Tail(t)) = Len(t) - 1
        /\ Len(t) \in Nat /\ Len(t) # 0 /\ Len(s) \in Nat
        /\ Head(t) = t[1] /\ \A i \in 1 .. Len(Tail(t)) : Tail(t)[i] = t[i + 1]
    BY HeadTailProperties
  <1> DEFINE h == Head(t)
             u == Tail(t)
             a == Append(s, h)
  <1>2. /\ a \in Seq(S) /\ Len(a) = Len(s) + 1 /\ a[Len(s) + 1] = h
        /\ \A i \in 1 .. Len(s) : a[i] = s[i]
    BY <1>1, AppendProperties
  <1>3. /\ a \o u \in Seq(S) /\ Len(a \o u) = Len(a) + Len(u)
        /\ \A i \in 1 .. Len(a) + Len(u) : (a \o u)[i] = IF i <= Len(a) THEN a[i] ELSE u[i - Len(a)]
    <2> HIDE DEF a, u
    <2> QED
      BY <1>1, <1>2, ConcatProperties DEF u
  <1>4. /\ s \o t \in Seq(S) /\ Len(s \o t) = Len(s) + Len(t)
        /\ \A i \in 1 .. Len(s) + Len(t) : (s \o t)[i] = IF i <= Len(s) THEN s[i] ELSE t[i - Len(s)]
    BY ConcatProperties
  <1>5. \A i \in 1 .. Len(s) + Len(t) : (a \o u)[i] = (s \o t)[i]
    <2> SUFFICES ASSUME NEW i \in 1 .. Len(s) + Len(t) PROVE (a \o u)[i] = (s \o t)[i]
      OBVIOUS
    <2>1. (a \o u)[i] = IF i <= Len(s) + 1 THEN a[i] ELSE u[i - (Len(s) + 1)]
      BY <1>1, <1>2, <1>3
    <2>2. (s \o t)[i] = IF i <= Len(s) THEN s[i] ELSE t[i - Len(s)]
      BY <1>4
    <2> HIDE DEF a, u
    <2>3. CASE i <= Len(s)
      BY <1>1, <1>2, <2>1, <2>2, <2>3
    <2>4. CASE i = Len(s) + 1
      <3>1. i - Len(s) = 1 /\ ~(i <= Len(s))
        BY <1>1, <2>4
      <3> QED
        BY <1>1, <1>2, <2>1, <2>2, <2>4, <3>1
    <2>5. CASE i > Len(s) + 1
      <3>1. /\ i - (Len(s) + 1) \in 1 .. Len(u) /\ i - (Len(s) + 1) + 1 = i - Len(s)
            /\ ~(i <= Len(s) + 1) /\ ~(i <= Len(s))
        BY <1>1, <2>5 DEF u
      <3>2. u[i - (Len(s) + 1)] = t[i - (Len(s) + 1) + 1]
        BY <1>1, <3>1 DEF u
      <3> QED
        BY <2>1, <2>2, <3>1, <3>2
    <2>6. i <= Len(s) \/ i = Len(s) + 1 \/ i > Len(s) + 1
      BY <1>1
    <2> QED
      BY <2>3, <2>4, <2>5, <2>6
  <1>6. a \o u = s \o t
    <2> HIDE DEF a, u
    <2>1. Len(a \o u) = Len(s \o t)
      BY <1>1, <1>2, <1>3, <1>4 DEF u
    <2>2. Len(s \o t) = Len(s) + Len(t)
      BY <1>4
    <2> QED
      BY <1>3, <1>4, <1>5, <2>1, <2>2, SeqEqual
  <1>7. Len(u) = 0 <=> u = <<>>
    BY <1>1, EmptySeq
  <1> QED
    BY <1>1, <1>2, <1>6, <1>7

(* There is always an inode for a new file.                                  *)
LEMMA FreshInode ==
    ASSUME TypeOK
    PROVE  \E i \in Inode : i \notin {dir["group"], dir["temp"]} \cup {out[q] : q \in Proc}
  <1> DEFINE U == {out[q] : q \in Proc}
             n == Cardinality(Proc)
  <1>1. IsFiniteSet(Proc) /\ n \in Nat
    BY ConstantsAssumption, FS_AddElement, FS_CardinalityType DEF Proc
  <1>2. IsFiniteSet(U) /\ Cardinality(U) <= n /\ Cardinality(U) \in Nat
    <2>1. out \in Surjection(Proc, U)
      BY DEF TypeOK, Surjection
    <2> HIDE DEF U
    <2> QED
      BY <1>1, <2>1, FS_Surjection, FS_CardinalityType
  <1>a. ASSUME NEW S, NEW x, IsFiniteSet(S)
        PROVE  /\ IsFiniteSet(S \cup {x}) /\ Cardinality(S \cup {x}) \in Nat
               /\ Cardinality(S \cup {x}) <= Cardinality(S) + 1
    <2>1. Cardinality(S) \in Nat
      BY <1>a, FS_CardinalityType
    <2>2. /\ IsFiniteSet(S \cup {x})
          /\ Cardinality(S \cup {x}) = IF x \in S THEN Cardinality(S) ELSE Cardinality(S) + 1
      BY <1>a, FS_AddElement
    <2> QED
      BY <2>1, <2>2
  <1> DEFINE V == U \cup {dir["group"]}
             W == V \cup {dir["temp"]}
  <1>3. IsFiniteSet(V) /\ Cardinality(V) \in Nat /\ Cardinality(V) <= Cardinality(U) + 1
    <2> HIDE DEF U
    <2> QED
      BY <1>2, <1>a
  <1>4. IsFiniteSet(W) /\ Cardinality(W) \in Nat /\ Cardinality(W) <= n + 2
    <2> HIDE DEF V
    <2>1. Cardinality(W) <= Cardinality(V) + 1 /\ IsFiniteSet(W) /\ Cardinality(W) \in Nat
      BY <1>3, <1>a
    <2> HIDE DEF U, W, n
    <2> QED
      BY <1>1, <1>2, <1>3, <2>1
  <1>5. IsFiniteSet(Inode) /\ Cardinality(Inode) = n + 3
    <2>1. 1 \in Int /\ n + 3 \in Int /\ 1 <= n + 3
      BY <1>1
    <2> HIDE DEF n
    <2>2. Cardinality(1 .. n + 3) = n + 3 - 1 + 1
      BY <1>1, <2>1, FS_Interval
    <2> QED
      BY <1>1, <2>1, <2>2, FS_Interval DEF Inode, n
  <1>6. ~(Inode \subseteq W)
    <2> HIDE DEF W
    <2> QED
      BY <1>1, <1>4, <1>5, FS_Subset
  <1>7. PICK i \in Inode : i \notin W
    BY <1>6
  <1> QED
    BY <1>7

(* A file that is opened for appending is the entry's, or new and empty.     *)
LEMMA OpenAppendEffect ==
    ASSUME TypeOK, NEW p \in Proc, NEW name \in {"group", "temp"}, OpenAppend(p, name)
    PROVE  \E i \in Inode :
              /\ out' = [out EXCEPT ![p] = i] /\ dir' = [dir EXCEPT ![name] = i]
              /\ IF dir[name] = NoFile
                 THEN /\ i \notin {dir["group"], dir["temp"]}
                      /\ content' = [content EXCEPT ![i] = <<>>]
                 ELSE i = dir[name] /\ content' = content
  <1> DEFINE Free(i) == i \notin {dir["group"], dir["temp"]} \cup {out[q] : q \in Proc}
             new == CHOOSE i \in Inode : Free(i)
  <1>1. new \in Inode /\ Free(new)
    <2>1. \E i \in Inode : Free(i)
      BY FreshInode
    <2> HIDE DEF Free
    <2> QED
      BY <2>1
  <1>2. dir[name] \in Inode \cup {NoFile} /\ dir = [dir EXCEPT ![name] = dir[name]]
    BY DEF TypeOK
  <1>3. CASE dir[name] = NoFile
    <2>1. /\ dir' = [dir EXCEPT ![name] = new]
          /\ content' = [content EXCEPT ![new] = <<>>]
          /\ out' = [out EXCEPT ![p] = new]
      BY <1>3 DEF OpenAppend
    <2> HIDE DEF new
    <2> QED
      BY <1>1, <1>3, <2>1
  <1>4. CASE dir[name] # NoFile
    <2>1. out' = [out EXCEPT ![p] = dir[name]] /\ dir' = dir /\ content' = content
      BY <1>4 DEF OpenAppend
    <2> QED
      BY <1>2, <1>4, <2>1
  <1> QED
    BY <1>3, <1>4

-----------------------------------------------------------------------------
(* The steps, file by file.                                                 *)

(* What each thread may do, and what it has in hand when it does.            *)
Kinds ==
    /\ \A r \in Reader : /\ pc[r] \notin {"append", "log"}
                         /\ pc[r] # "idle" => reads[r] < MaxReads
    /\ pc[Consumer] # "read"
    /\ Len(stored) <= taken /\ (pc[Consumer] # "idle" => Len(stored) < taken)
    /\ \A p \in Proc : /\ pc[p] = "write" => todo[p] # <<>>
                       /\ pc[p] \in {"write", "log"} => out[p] \in Inode
                       /\ start[p] <= Len(stored)

(* The two names never stand for one file.                                   *)
Distinct == dir["group"] = dir["temp"] => dir["group"] = NoFile

TInv == TypeOK /\ Kinds /\ Distinct /\ TempHasOwner

(* A thread goes on; the others stay where they are.                         *)
LEMMA GotoEffect ==
    ASSUME TypeOK, NEW p \in Proc, NEW l \in Steps, Goto(p, l)
    PROVE  /\ pc' \in [Proc -> Steps] /\ pc' = [pc EXCEPT ![p] = l]
           /\ \A q \in Proc : pc'[q] = IF q = p THEN l ELSE pc[q]
  BY DEF TypeOK, Goto

(* The lines to keep are a number of them.                                   *)
LEMMA KeptIsNat ==
    ASSUME NEW p \in Proc
    PROVE  Kept(p) \in Nat /\ Kept(p) <= Limit /\ Limit - 1 <= Kept(p)
  BY ConstantsAssumption DEF Kept

(* The group's lines and those of the temporary file.                        *)
LEMMA LinesType ==
    ASSUME TypeOK, NEW name \in {"group", "temp"}
    PROVE  Lines(name) \in Seq(Message)
  BY DEF TypeOK, Lines

(* An operation begins.                                                      *)
LEMMA BeginEffect ==
    ASSUME TypeOK, NEW p \in Proc, Begin(p)
    PROVE  /\ pc[p] = "idle"
           /\ \A q \in Proc : pc'[q] = IF q = p THEN "crop" ELSE pc[q]
           /\ pc' \in [Proc -> Steps]
           /\ \A q \in Proc : start'[q] = IF q = p THEN Len(stored) ELSE start[q]
           /\ alone' \in [Proc -> BOOLEAN] /\ overlapped' \in BOOLEAN
           /\ \A q \in Proc : alone'[q] => IF q = p THEN Busy = {} ELSE alone[q] /\ q \notin Busy
           /\ ~overlapped' => ~overlapped /\ Busy = {}
  <1>1. "crop" \in Steps
    BY DEF Steps
  <1> QED
    BY <1>1, GotoEffect DEF Begin, TypeOK

(* A thread counts the lines of the group's file.                             *)
LEMMA CropEffect ==
    ASSUME TypeOK, NEW p \in Proc, Crop(p)
    PROVE  /\ pc[p] = "crop" /\ todo' \in [Proc -> Seq(Message)]
           /\ \A q \in Proc : q # p => pc'[q] = pc[q] /\ todo'[q] = todo[q]
           /\ \/ /\ Len(Lines("group")) > Limit /\ pc'[p] = "open"
                 /\ todo'[p] = LastLines(Lines("group"), Kept(p))
              \/ /\ Len(Lines("group")) <= Limit
                 /\ pc'[p] = AfterCrop(p)
           /\ pc' \in [Proc -> Steps]
           /\ UNCHANGED <<dir, content, out, taken, shown, reads, crashes, log>>
  <1>1. "open" \in Steps /\ AfterCrop(p) \in Steps
    BY DEF Steps, AfterCrop
  <1>2. Lines("group") \in Seq(Message)
    BY LinesType
  <1>3. Len(Lines("group")) \in Nat /\ Limit \in Nat
    BY <1>2, ConstantsAssumption
  <1>4. CASE Len(Lines("group")) > Limit
    <2>1. Goto(p, "open") /\ todo' = [todo EXCEPT ![p] = LastLines(Lines("group"), Kept(p))]
      BY <1>4 DEF Crop
    <2>2. LastLines(Lines("group"), Kept(p)) \in Seq(Message)
      BY <1>2, KeptIsNat, LastLinesAre
    <2>3. /\ todo' \in [Proc -> Seq(Message)]
          /\ \A q \in Proc : q # p => todo'[q] = todo[q]
          /\ todo'[p] = LastLines(Lines("group"), Kept(p))
      BY <2>1, <2>2 DEF TypeOK
    <2> QED
      BY <1>1, <1>4, <2>1, <2>3, GotoEffect DEF Crop
  <1>5. CASE ~(Len(Lines("group")) > Limit)
    <2>1. Goto(p, AfterCrop(p)) /\ todo' = todo
      BY <1>5 DEF Crop
    <2> QED
      BY <1>1, <1>3, <1>5, <2>1, GotoEffect DEF Crop, TypeOK
  <1> QED
    BY <1>4, <1>5

(* A temporary file is opened: a new one, or the one that is there.           *)
LEMMA OpenTempEffect ==
    ASSUME TypeOK, NEW p \in Proc, OpenTemp(p)
    PROVE  /\ pc[p] = "open" /\ pc' \in [Proc -> Steps]
           /\ \A q \in Proc : q # p => pc'[q] = pc[q] /\ out'[q] = out[q]
           /\ pc'[p] = IF todo[p] = <<>> THEN "remove" ELSE "write"
           /\ out' \in [Proc -> Inode \cup {NoFile}] /\ content' \in [Inode -> Seq(Message)]
           /\ dir' \in [{"group", "temp"} -> Inode \cup {NoFile}]
           /\ dir'["group"] = dir["group"] /\ dir'["temp"] \in Inode /\ out'[p] = dir'["temp"]
           /\ Lines("group")' = Lines("group") /\ Lines("temp")' = Lines("temp")
           /\ dir["temp"] # NoFile => dir'["temp"] = dir["temp"]
           /\ dir["temp"] = NoFile => dir'["temp"] # dir["group"]
           /\ UNCHANGED <<todo, taken, shown, reads, crashes, log>>
  <1>1. /\ pc[p] = "open" /\ Goto(p, IF todo[p] = <<>> THEN "remove" ELSE "write")
        /\ UNCHANGED <<todo, taken, shown, reads, crashes, log>>
    BY DEF OpenTemp
  <1>2. (IF todo[p] = <<>> THEN "remove" ELSE "write") \in Steps
    BY DEF Steps
  <1>3. PICK i \in Inode :
              /\ out' = [out EXCEPT ![p] = i] /\ dir' = [dir EXCEPT !["temp"] = i]
              /\ IF dir["temp"] = NoFile
                 THEN /\ i \notin {dir["group"], dir["temp"]}
                      /\ content' = [content EXCEPT ![i] = <<>>]
                 ELSE i = dir["temp"] /\ content' = content
    BY OpenAppendEffect DEF OpenTemp
  <1>4. <<>> \in Seq(Message) /\ NoFile \notin Inode
    BY ConstantsAssumption
  <1>5. /\ out' \in [Proc -> Inode \cup {NoFile}] /\ content' \in [Inode -> Seq(Message)]
        /\ dir' \in [{"group", "temp"} -> Inode \cup {NoFile}]
        /\ \A q \in Proc : q # p => out'[q] = out[q]
        /\ out'[p] = i /\ dir'["group"] = dir["group"] /\ dir'["temp"] = i
    BY <1>3, <1>4 DEF TypeOK
  <1>6. Lines("group")' = Lines("group") /\ Lines("temp")' = Lines("temp")
    BY <1>3, <1>4, <1>5 DEF Lines, TypeOK
  <1> QED
    BY <1>1, <1>2, <1>3, <1>5, <1>6, GotoEffect

(* A line is written to whatever file the thread has open.                    *)
LEMMA WriteTempEffect ==
    ASSUME TInv, NEW p \in Proc, WriteTemp(p)
    PROVE  /\ pc[p] = "write" /\ pc' \in [Proc -> Steps] /\ todo[p] # <<>>
           /\ \A q \in Proc : q # p => pc'[q] = pc[q] /\ todo'[q] = todo[q]
           /\ todo'[p] = Tail(todo[p]) /\ todo' \in [Proc -> Seq(Message)]
           /\ pc'[p] = IF todo'[p] = <<>> THEN "remove" ELSE "write"
           /\ content' \in [Inode -> Seq(Message)]
           /\ dir["temp"] = out[p] => /\ Lines("temp")' = Append(Lines("temp"), Head(todo[p]))
                                      /\ Lines("group")' = Lines("group")
           /\ UNCHANGED <<dir, out, taken, shown, reads, crashes, log>>
  <1>1. /\ TypeOK /\ todo[p] # <<>> /\ out[p] \in Inode /\ todo[p] \in Seq(Message)
        /\ content[out[p]] \in Seq(Message) /\ NoFile \notin Inode /\ pc[p] = "write"
    BY ConstantsAssumption DEF TInv, TypeOK, Kinds, WriteTemp
  <1>2. /\ Head(todo[p]) \in Message /\ Tail(todo[p]) \in Seq(Message)
        /\ Len(todo[p]) = 1 <=> Tail(todo[p]) = <<>>
        /\ Append(content[out[p]], Head(todo[p])) \in Seq(Message)
    BY <1>1, OneLineFurther, AppendedLines
  <1>3. /\ content' = [content EXCEPT ![out[p]] = Append(content[out[p]], Head(todo[p]))]
        /\ todo' = [todo EXCEPT ![p] = Tail(todo[p])]
        /\ Goto(p, IF Len(todo[p]) = 1 THEN "remove" ELSE "write")
        /\ UNCHANGED <<dir, out, taken, shown, reads, crashes, log>>
    BY DEF WriteTemp
  <1>4. /\ content' \in [Inode -> Seq(Message)] /\ todo' \in [Proc -> Seq(Message)]
        /\ \A i \in Inode : content'[i] =
              IF i = out[p] THEN Append(content[out[p]], Head(todo[p])) ELSE content[i]
        /\ \A q \in Proc : todo'[q] = IF q = p THEN Tail(todo[p]) ELSE todo[q]
    BY <1>1, <1>2, <1>3 DEF TypeOK
  <1>5. ASSUME dir["temp"] = out[p]
        PROVE  /\ Lines("temp")' = Append(Lines("temp"), Head(todo[p]))
               /\ Lines("group")' = Lines("group")
    <2>1. dir["group"] \in Inode \cup {NoFile} /\ dir["group"] # dir["temp"]
      BY <1>1, <1>5 DEF TInv, TypeOK, Distinct
    <2> QED
      BY <1>1, <1>3, <1>4, <1>5, <2>1 DEF Lines
  <1>6. (IF Len(todo[p]) = 1 THEN "remove" ELSE "write") \in Steps
    BY DEF Steps
  <1>7. /\ pc' \in [Proc -> Steps] /\ \A q \in Proc : q # p => pc'[q] = pc[q]
        /\ pc'[p] = IF Len(todo[p]) = 1 THEN "remove" ELSE "write"
    BY <1>1, <1>3, <1>6, GotoEffect
  <1> QED
    BY <1>1, <1>2, <1>3, <1>4, <1>5, <1>7

(* The group's file is removed.                                               *)
LEMMA RemoveEffect ==
    ASSUME TypeOK, NEW p \in Proc, RemoveGroup(p)
    PROVE  /\ pc[p] = "remove" /\ pc' \in [Proc -> Steps]
           /\ \A q \in Proc : pc'[q] = IF q = p THEN "rename" ELSE pc[q]
           /\ dir' \in [{"group", "temp"} -> Inode \cup {NoFile}]
           /\ dir'["group"] = NoFile /\ dir'["temp"] = dir["temp"]
           /\ Lines("group")' = <<>> /\ Lines("temp")' = Lines("temp")
           /\ UNCHANGED <<content, out, todo, taken, shown, reads, crashes, log>>
  <1>1. "rename" \in Steps
    BY DEF Steps
  <1>2. /\ dir' = [dir EXCEPT !["group"] = NoFile] /\ pc[p] = "remove" /\ Goto(p, "rename")
        /\ UNCHANGED <<content, out, todo, taken, shown, reads, crashes, log>>
    BY DEF RemoveGroup
  <1>3. /\ dir' \in [{"group", "temp"} -> Inode \cup {NoFile}]
        /\ dir'["group"] = NoFile /\ dir'["temp"] = dir["temp"]
    BY <1>2 DEF TypeOK
  <1> QED
    BY <1>1, <1>2, <1>3, GotoEffect DEF Lines

(* The temporary file, if there is one, takes the place of the group's.       *)
LEMMA RenameEffect ==
    ASSUME TypeOK, NEW p \in Proc, RenameTemp(p)
    PROVE  /\ pc[p] = "rename" /\ pc' \in [Proc -> Steps]
           /\ \A q \in Proc : q # p => pc'[q] = pc[q] /\ out'[q] = out[q]
           /\ pc'[p] = AfterCrop(p)
           /\ dir' \in [{"group", "temp"} -> Inode \cup {NoFile}]
           /\ out' \in [Proc -> Inode \cup {NoFile}]
           /\ dir'["temp"] = NoFile /\ Lines("temp")' = <<>>
           /\ IF dir["temp"] = NoFile THEN dir' = dir /\ Lines("group")' = Lines("group")
              ELSE dir'["group"] = dir["temp"] /\ Lines("group")' = Lines("temp")
           /\ UNCHANGED <<content, todo, taken, shown, reads, crashes, log>>
  <1>1. AfterCrop(p) \in Steps
    BY DEF Steps, AfterCrop
  <1>2. /\ dir' = IF dir["temp"] = NoFile THEN dir
                  ELSE [dir EXCEPT !["group"] = dir["temp"], !["temp"] = NoFile]
        /\ out' = [out EXCEPT ![p] = NoFile] /\ pc[p] = "rename" /\ Goto(p, AfterCrop(p))
        /\ UNCHANGED <<content, todo, taken, shown, reads, crashes, log>>
    BY DEF RenameTemp
  <1>3. /\ dir' \in [{"group", "temp"} -> Inode \cup {NoFile}]
        /\ dir'["temp"] = NoFile
        /\ IF dir["temp"] = NoFile THEN dir' = dir ELSE dir'["group"] = dir["temp"]
    <2>1. CASE dir["temp"] = NoFile
      BY <1>2, <2>1 DEF TypeOK
    <2>2. CASE dir["temp"] # NoFile
      BY <1>2, <2>2 DEF TypeOK
    <2> QED
      BY <2>1, <2>2
  <1>4. /\ out' \in [Proc -> Inode \cup {NoFile}]
        /\ \A q \in Proc : q # p => out'[q] = out[q]
    BY <1>2 DEF TypeOK
  <1>5. /\ Lines("temp")' = <<>>
        /\ IF dir["temp"] = NoFile THEN Lines("group")' = Lines("group")
                                   ELSE Lines("group")' = Lines("temp")
    BY <1>2, <1>3 DEF Lines
  <1> QED
    BY <1>1, <1>2, <1>3, <1>4, <1>5, GotoEffect

(* The group's file is opened for the new message.                            *)
LEMMA OpenGroupEffect ==
    ASSUME TypeOK, NEW p \in Proc, OpenGroup(p)
    PROVE  /\ pc[p] = "append" /\ pc' \in [Proc -> Steps]
           /\ \A q \in Proc : q # p => pc'[q] = pc[q] /\ out'[q] = out[q]
           /\ pc'[p] = "log"
           /\ out' \in [Proc -> Inode \cup {NoFile}] /\ content' \in [Inode -> Seq(Message)]
           /\ dir' \in [{"group", "temp"} -> Inode \cup {NoFile}]
           /\ dir'["temp"] = dir["temp"] /\ dir'["group"] \in Inode /\ out'[p] = dir'["group"]
           /\ Lines("group")' = Lines("group") /\ Lines("temp")' = Lines("temp")
           /\ dir["group"] # NoFile => dir'["group"] = dir["group"]
           /\ dir["group"] = NoFile => dir'["group"] # dir["temp"]
           /\ UNCHANGED <<todo, taken, shown, reads, crashes, log>>
  <1>1. /\ pc[p] = "append" /\ Goto(p, "log")
        /\ UNCHANGED <<todo, taken, shown, reads, crashes, log>>
    BY DEF OpenGroup
  <1>2. "log" \in Steps
    BY DEF Steps
  <1>3. PICK i \in Inode :
              /\ out' = [out EXCEPT ![p] = i] /\ dir' = [dir EXCEPT !["group"] = i]
              /\ IF dir["group"] = NoFile
                 THEN /\ i \notin {dir["group"], dir["temp"]}
                      /\ content' = [content EXCEPT ![i] = <<>>]
                 ELSE i = dir["group"] /\ content' = content
    BY OpenAppendEffect DEF OpenGroup
  <1>4. <<>> \in Seq(Message) /\ NoFile \notin Inode
    BY ConstantsAssumption
  <1>5. /\ out' \in [Proc -> Inode \cup {NoFile}] /\ content' \in [Inode -> Seq(Message)]
        /\ dir' \in [{"group", "temp"} -> Inode \cup {NoFile}]
        /\ \A q \in Proc : q # p => out'[q] = out[q]
        /\ out'[p] = i /\ dir'["temp"] = dir["temp"] /\ dir'["group"] = i
    BY <1>3, <1>4 DEF TypeOK
  <1>6. Lines("group")' = Lines("group") /\ Lines("temp")' = Lines("temp")
    BY <1>3, <1>4, <1>5 DEF Lines, TypeOK
  <1> QED
    BY <1>1, <1>2, <1>3, <1>5, <1>6, GotoEffect

(* The consumer writes the new message to the file it has open.               *)
LEMMA AppendEffect ==
    ASSUME TInv, NEW p \in Proc, AppendMessage(p)
    PROVE  /\ p = Consumer /\ pc[p] = "log" /\ pc' \in [Proc -> Steps] /\ taken \in Message
           /\ \A q \in Proc : pc'[q] = IF q = p THEN "idle" ELSE pc[q]
           /\ \A q \in Proc : q # p => out'[q] = out[q]
           /\ out' \in [Proc -> Inode \cup {NoFile}] /\ content' \in [Inode -> Seq(Message)]
           /\ dir["group"] = out[p] => /\ Lines("group")' = Append(Lines("group"), taken)
                                       /\ Lines("temp")' = Lines("temp")
           /\ stored' = Append(stored, taken) /\ Len(stored') = Len(stored) + 1
           /\ stored' \in Seq(Message)
           /\ UNCHANGED <<dir, todo, taken, shown, reads, crashes, start, alone, overlapped>>
  <1>1. /\ TypeOK /\ out[p] \in Inode /\ content[out[p]] \in Seq(Message)
        /\ NoFile \notin Inode /\ pc[p] = "log" /\ stored \in Seq(Message)
    BY ConstantsAssumption DEF TInv, TypeOK, Kinds, AppendMessage
  <1>2. p = Consumer
    BY <1>1 DEF TInv, Kinds, Proc
  <1>3. taken \in Message
    <2>1. Len(stored) \in Nat /\ Len(stored) < taken
      BY <1>1, <1>2 DEF TInv, Kinds
    <2> QED
      BY <1>1, <2>1, ConstantsAssumption DEF TypeOK, Message
  <1>4. /\ Append(content[out[p]], taken) \in Seq(Message)
        /\ Append(stored, taken) \in Seq(Message) /\ Len(Append(stored, taken)) = Len(stored) + 1
    BY <1>1, <1>3, AppendedLines
  <1>5. /\ content' = [content EXCEPT ![out[p]] = Append(content[out[p]], taken)]
        /\ out' = [out EXCEPT ![p] = NoFile] /\ stored' = Append(stored, taken)
        /\ Goto(p, "idle")
        /\ UNCHANGED <<dir, todo, taken, shown, reads, crashes, start, alone, overlapped>>
    BY DEF AppendMessage
  <1>6. /\ content' \in [Inode -> Seq(Message)]
        /\ \A i \in Inode : content'[i] =
              IF i = out[p] THEN Append(content[out[p]], taken) ELSE content[i]
        /\ out' \in [Proc -> Inode \cup {NoFile}]
        /\ \A q \in Proc : q # p => out'[q] = out[q]
    BY <1>1, <1>4, <1>5 DEF TypeOK
  <1>7. ASSUME dir["group"] = out[p]
        PROVE  /\ Lines("group")' = Append(Lines("group"), taken)
               /\ Lines("temp")' = Lines("temp")
    <2>1. dir["temp"] \in Inode \cup {NoFile} /\ dir["group"] # dir["temp"]
      BY <1>1, <1>7 DEF TInv, TypeOK, Distinct
    <2> QED
      BY <1>1, <1>5, <1>6, <1>7, <2>1 DEF Lines
  <1>8. "idle" \in Steps
    BY DEF Steps
  <1> QED
    BY <1>1, <1>2, <1>3, <1>4, <1>5, <1>6, <1>7, <1>8, GotoEffect

(* A reader gets the lines there are.                                         *)
LEMMA ReadEffect ==
    ASSUME TInv, NEW p \in Proc, ReadGroup(p)
    PROVE  /\ p \in Reader /\ pc[p] = "read" /\ pc' \in [Proc -> Steps]
           /\ \A q \in Proc : pc'[q] = IF q = p THEN "idle" ELSE pc[q]
           /\ shown' \in [Reader -> Seq(Message)] /\ reads' \in [Reader -> 0 .. MaxReads]
           /\ \A q \in Reader : shown'[q] = IF q = p THEN Lines("group") ELSE shown[q]
           /\ \A q \in Reader : q # p => reads'[q] = reads[q]
           /\ UNCHANGED <<dir, content, out, todo, taken, crashes, log>>
  <1>1. TypeOK /\ pc[p] = "read" /\ p \in Reader
    BY DEF TInv, Kinds, ReadGroup, Proc
  <1>2. Lines("group") \in Seq(Message)
    BY <1>1, LinesType
  <1>3. "idle" \in Steps
    BY DEF Steps
  <1>4. reads[p] + 1 \in 0 .. MaxReads
    <2>1. reads[p] < MaxReads
      BY <1>1 DEF TInv, Kinds
    <2> QED
      BY <1>1, <2>1, ConstantsAssumption DEF TypeOK
  <1>5. /\ shown' = [shown EXCEPT ![p] = Lines("group")]
        /\ reads' = [reads EXCEPT ![p] = reads[p] + 1] /\ Goto(p, "idle")
        /\ UNCHANGED <<dir, content, out, todo, taken, crashes, log>>
    BY DEF ReadGroup
  <1>6. /\ shown' \in [Reader -> Seq(Message)] /\ reads' \in [Reader -> 0 .. MaxReads]
        /\ \A q \in Reader : shown'[q] = IF q = p THEN Lines("group") ELSE shown[q]
        /\ \A q \in Reader : q # p => reads'[q] = reads[q]
    BY <1>1, <1>2, <1>4, <1>5 DEF TypeOK
  <1> QED
    BY <1>1, <1>3, <1>5, <1>6, GotoEffect

-----------------------------------------------------------------------------
(* No temporary file is left behind.                                        *)

(* The thread about to rename the temporary file is still there after a step *)
(* of a thread that is not.                                                  *)
LEMMA OwnerStays ==
    ASSUME TempHasOwner, NEW p \in Proc, pc[p] \notin {"write", "remove", "rename"},
           \A q \in Proc : q # p => pc'[q] = pc[q], dir'["temp"] = dir["temp"], crashes' = crashes
    PROVE  TempHasOwner'
  BY DEF TempHasOwner

(* What is said of a thread holds of those that a step leaves alone.         *)
LEMMA OthersKeepKind ==
    ASSUME Kinds, NEW p \in Proc, NEW q \in Proc, pc'[q] = pc[q], todo'[q] = todo[q],
           out'[q] = out[q], start'[q] = start[q], Len(stored) <= Len(stored')
    PROVE  /\ pc'[q] = "write" => todo'[q] # <<>>
           /\ pc'[q] \in {"write", "log"} => out'[q] \in Inode
           /\ start[q] \in Nat /\ stored \in Seq(Message) /\ stored' \in Seq(Message) =>
                 start'[q] <= Len(stored')
  <1>1. ASSUME start[q] \in Nat, stored \in Seq(Message), stored' \in Seq(Message)
        PROVE  start[q] <= Len(stored')
    <2>1. start[q] <= Len(stored) /\ Len(stored) \in Nat /\ Len(stored') \in Nat
      BY <1>1 DEF Kinds
    <2> QED
      BY <1>1, <2>1
  <1> QED
    BY <1>1 DEF Kinds

(* An operation begins: only the thread's counters change.                   *)
LEMMA BeginKeeps ==
    ASSUME TInv, NEW p \in Proc, Begin(p),
           \/ p = Consumer /\ taken < MaxMessages /\ taken' = taken + 1
           \/ p # Consumer /\ reads[p] < MaxReads /\ taken' = taken,
           UNCHANGED <<dir, content, out, todo, shown, reads, crashes, stored>>
    PROVE  TInv'
  <1>1. /\ TypeOK /\ Kinds /\ Distinct /\ TempHasOwner
        /\ Len(stored) \in Nat /\ taken \in Nat /\ MaxMessages \in Nat /\ Len(stored) <= taken
        /\ taken <= MaxMessages
    BY ConstantsAssumption DEF TInv, TypeOK, Kinds
  <1>2. /\ pc[p] = "idle" /\ pc' \in [Proc -> Steps]
        /\ \A q \in Proc : pc'[q] = IF q = p THEN "crop" ELSE pc[q]
        /\ \A q \in Proc : start'[q] = IF q = p THEN Len(stored) ELSE start[q]
        /\ start' = [start EXCEPT ![p] = Len(stored)]
        /\ alone' \in [Proc -> BOOLEAN] /\ overlapped' \in BOOLEAN
    BY <1>1, BeginEffect DEF Begin
  <1>3. TypeOK'
    <2>1. Len(stored) \in 0 .. MaxMessages /\ taken' \in 0 .. MaxMessages
      BY <1>1
    <2>2. start' \in [Proc -> 0 .. MaxMessages]
      BY <1>1, <1>2, <2>1 DEF TypeOK
    <2> QED
      BY <1>1, <1>2, <2>1, <2>2 DEF TypeOK
  <1>4. Kinds'
    <2>1. ASSUME NEW r \in Reader
          PROVE  /\ pc'[r] \notin {"append", "log"}
                 /\ pc'[r] # "idle" => reads'[r] < MaxReads
      <3>1. r \in Proc /\ r # Consumer
        BY ConstantsAssumption DEF Proc
      <3> QED
        BY <1>1, <1>2, <3>1 DEF Kinds
    <2>2. pc'[Consumer] # "read" /\ Consumer \in Proc
      BY <1>1, <1>2 DEF Kinds, Proc
    <2>3. Len(stored') <= taken' /\ (pc'[Consumer] # "idle" => Len(stored') < taken')
      BY <1>1, <1>2, <2>2 DEF Kinds
    <2>4. ASSUME NEW q \in Proc
          PROVE  /\ pc'[q] = "write" => todo'[q] # <<>>
                 /\ pc'[q] \in {"write", "log"} => out'[q] \in Inode
                 /\ start'[q] <= Len(stored')
      BY <1>1, <1>2 DEF Kinds
    <2> QED
      BY <2>1, <2>2, <2>3, <2>4 DEF Kinds
  <1>5. TempHasOwner'
    BY <1>1, <1>2, OwnerStays
  <1> QED
    BY <1>1, <1>3, <1>4, <1>5 DEF TInv, Distinct

(* A step that leaves the log alone keeps every thread's kind, if it leaves   *)
(* the thread that takes it where threads of its kind may be.                 *)
LEMMA StepKeepsKinds ==
    ASSUME TInv, NEW p \in Proc, pc[p] # "idle",
           \A q \in Proc : q # p => pc'[q] = pc[q] /\ todo'[q] = todo[q] /\ out'[q] = out[q],
           UNCHANGED <<taken, reads, log>>,
           p \in Reader => pc'[p] \notin {"append", "log"}, p = Consumer => pc'[p] # "read",
           pc'[p] = "write" => todo'[p] # <<>>, pc'[p] \in {"write", "log"} => out'[p] \in Inode
    PROVE  Kinds'
  <1>1. Kinds /\ Consumer \in Proc /\ Reader \subseteq Proc
    BY DEF TInv, Proc
  <1>2. UNCHANGED stored /\ UNCHANGED start
    BY DEF log
  <1> QED
    BY <1>1, <1>2 DEF Kinds

(* Where a thread goes after a crop.                                         *)
LEMMA AfterCropFits ==
    ASSUME NEW p \in Proc
    PROVE  /\ AfterCrop(p) \in {"append", "read"}
           /\ p \in Reader => AfterCrop(p) = "read"
           /\ p = Consumer => AfterCrop(p) = "append"
  BY ConstantsAssumption DEF AfterCrop

(* No step of a thread's operation leaves a temporary file behind.            *)
LEMMA StepKeeps ==
    ASSUME TInv, NEW p \in Proc, Step(p)
    PROVE  TInv'
  <1>1. TypeOK /\ Kinds /\ Distinct /\ TempHasOwner /\ NoFile \notin Inode
    BY ConstantsAssumption DEF TInv
  <1>2. CASE Crop(p)
    <2>1. /\ pc[p] = "crop" /\ todo' \in [Proc -> Seq(Message)]
          /\ \A q \in Proc : q # p => pc'[q] = pc[q] /\ todo'[q] = todo[q]
          /\ pc'[p] = "open" \/ pc'[p] = AfterCrop(p)
          /\ pc' \in [Proc -> Steps]
          /\ UNCHANGED <<dir, content, out, taken, shown, reads, crashes, log>>
      BY <1>1, <1>2, CropEffect
    <2>2. TypeOK'
      BY <1>1, <2>1 DEF TypeOK, log
    <2>3. Kinds'
      BY <2>1, AfterCropFits, StepKeepsKinds
    <2> QED
      BY <1>1, <2>1, <2>2, <2>3, OwnerStays DEF TInv, Distinct
  <1>3. CASE OpenTemp(p)
    <2>1. /\ pc[p] = "open" /\ pc' \in [Proc -> Steps]
          /\ \A q \in Proc : q # p => pc'[q] = pc[q] /\ out'[q] = out[q]
          /\ pc'[p] = IF todo[p] = <<>> THEN "remove" ELSE "write"
          /\ out' \in [Proc -> Inode \cup {NoFile}] /\ content' \in [Inode -> Seq(Message)]
          /\ dir' \in [{"group", "temp"} -> Inode \cup {NoFile}]
          /\ dir'["group"] = dir["group"] /\ dir'["temp"] \in Inode /\ out'[p] = dir'["temp"]
          /\ dir["temp"] # NoFile => dir'["temp"] = dir["temp"]
          /\ dir["temp"] = NoFile => dir'["temp"] # dir["group"]
          /\ UNCHANGED <<todo, taken, shown, reads, crashes, log>>
      BY <1>1, <1>3, OpenTempEffect
    <2>2. TypeOK'
      BY <1>1, <2>1 DEF TypeOK, log
    <2>3. Kinds'
      BY <2>1, StepKeepsKinds
    <2>4. Distinct' /\ TempHasOwner'
      BY <1>1, <2>1 DEF Distinct, TempHasOwner
    <2> QED
      BY <2>2, <2>3, <2>4 DEF TInv
  <1>4. CASE WriteTemp(p)
    <2>1. /\ pc[p] = "write" /\ pc' \in [Proc -> Steps]
          /\ \A q \in Proc : q # p => pc'[q] = pc[q] /\ todo'[q] = todo[q]
          /\ todo' \in [Proc -> Seq(Message)]
          /\ pc'[p] = IF todo'[p] = <<>> THEN "remove" ELSE "write"
          /\ content' \in [Inode -> Seq(Message)]
          /\ UNCHANGED <<dir, out, taken, shown, reads, crashes, log>>
      BY <1>4, WriteTempEffect
    <2>2. TypeOK'
      BY <1>1, <2>1 DEF TypeOK, log
    <2>3. Kinds'
      <3>1. out[p] \in Inode
        BY <1>1, <2>1 DEF Kinds
      <3> QED
        BY <2>1, <3>1, StepKeepsKinds
    <2>4. Distinct' /\ TempHasOwner'
      BY <1>1, <2>1 DEF Distinct, TempHasOwner
    <2> QED
      BY <2>2, <2>3, <2>4 DEF TInv
  <1>5. CASE RemoveGroup(p)
    <2>1. /\ pc[p] = "remove" /\ pc' \in [Proc -> Steps]
          /\ \A q \in Proc : pc'[q] = IF q = p THEN "rename" ELSE pc[q]
          /\ dir' \in [{"group", "temp"} -> Inode \cup {NoFile}]
          /\ dir'["group"] = NoFile /\ dir'["temp"] = dir["temp"]
          /\ UNCHANGED <<content, out, todo, taken, shown, reads, crashes, log>>
      BY <1>1, <1>5, RemoveEffect
    <2>2. TypeOK'
      BY <1>1, <2>1 DEF TypeOK, log
    <2>3. Kinds'
      BY <2>1, StepKeepsKinds
    <2>4. Distinct' /\ TempHasOwner'
      BY <1>1, <2>1 DEF Distinct, TempHasOwner
    <2> QED
      BY <2>2, <2>3, <2>4 DEF TInv
  <1>6. CASE RenameTemp(p)
    <2>1. /\ pc[p] = "rename" /\ pc' \in [Proc -> Steps]
          /\ \A q \in Proc : q # p => pc'[q] = pc[q] /\ out'[q] = out[q]
          /\ pc'[p] = AfterCrop(p)
          /\ dir' \in [{"group", "temp"} -> Inode \cup {NoFile}]
          /\ out' \in [Proc -> Inode \cup {NoFile}]
          /\ dir'["temp"] = NoFile
          /\ UNCHANGED <<content, todo, taken, shown, reads, crashes, log>>
      BY <1>1, <1>6, RenameEffect
    <2>2. TypeOK'
      BY <1>1, <2>1 DEF TypeOK, log
    <2>3. Kinds'
      BY <2>1, AfterCropFits, StepKeepsKinds
    <2>4. Distinct' /\ TempHasOwner'
      BY <1>1, <2>1 DEF Distinct, TempHasOwner
    <2> QED
      BY <2>2, <2>3, <2>4 DEF TInv
  <1>7. CASE OpenGroup(p)
    <2>1. /\ pc[p] = "append" /\ pc' \in [Proc -> Steps]
          /\ \A q \in Proc : q # p => pc'[q] = pc[q] /\ out'[q] = out[q]
          /\ pc'[p] = "log"
          /\ out' \in [Proc -> Inode \cup {NoFile}] /\ content' \in [Inode -> Seq(Message)]
          /\ dir' \in [{"group", "temp"} -> Inode \cup {NoFile}]
          /\ dir'["temp"] = dir["temp"] /\ dir'["group"] \in Inode /\ out'[p] = dir'["group"]
          /\ dir["group"] # NoFile => dir'["group"] = dir["group"]
          /\ dir["group"] = NoFile => dir'["group"] # dir["temp"]
          /\ UNCHANGED <<todo, taken, shown, reads, crashes, log>>
      BY <1>1, <1>7, OpenGroupEffect
    <2>2. TypeOK'
      BY <1>1, <2>1 DEF TypeOK, log
    <2>3. Kinds'
      <3>1. p \notin Reader
        BY <1>1, <2>1 DEF Kinds
      <3> QED
        BY <2>1, <3>1, StepKeepsKinds
    <2>4. Distinct'
      BY <1>1, <2>1 DEF Distinct
    <2> QED
      BY <1>1, <2>1, <2>2, <2>3, <2>4, OwnerStays DEF TInv
  <1>8. CASE AppendMessage(p)
    <2>1. /\ p = Consumer /\ pc[p] = "log" /\ pc' \in [Proc -> Steps] /\ taken \in Message
          /\ \A q \in Proc : pc'[q] = IF q = p THEN "idle" ELSE pc[q]
          /\ \A q \in Proc : q # p => out'[q] = out[q]
          /\ out' \in [Proc -> Inode \cup {NoFile}] /\ content' \in [Inode -> Seq(Message)]
          /\ Len(stored') = Len(stored) + 1 /\ stored' \in Seq(Message)
          /\ UNCHANGED <<dir, todo, taken, shown, reads, crashes, start, alone, overlapped>>
      BY <1>8, AppendEffect
    <2>2. TypeOK'
      BY <1>1, <2>1 DEF TypeOK
    <2>3. Kinds'
      <3>1. /\ Len(stored) \in Nat /\ taken \in Nat /\ Len(stored) < taken
            /\ \A q \in Proc : start[q] \in Nat /\ start[q] <= Len(stored)
            /\ Consumer \in Proc /\ Reader \subseteq Proc
        BY <1>1, <2>1 DEF Kinds, TypeOK, Proc
      <3>2. Len(stored') <= taken /\ \A q \in Proc : start[q] <= Len(stored')
        BY <2>1, <3>1
      <3> QED
        BY <1>1, <2>1, <3>1, <3>2 DEF Kinds
    <2> QED
      BY <1>1, <2>1, <2>2, <2>3, OwnerStays DEF TInv, Distinct
  <1>9. CASE ReadGroup(p)
    <2>1. /\ p \in Reader /\ pc[p] = "read" /\ pc' \in [Proc -> Steps]
          /\ \A q \in Proc : pc'[q] = IF q = p THEN "idle" ELSE pc[q]
          /\ shown' \in [Reader -> Seq(Message)] /\ reads' \in [Reader -> 0 .. MaxReads]
          /\ \A q \in Reader : q # p => reads'[q] = reads[q]
          /\ UNCHANGED <<dir, content, out, todo, taken, crashes, log>>
      BY <1>9, ReadEffect
    <2>2. TypeOK'
      BY <1>1, <2>1 DEF TypeOK, log
    <2>3. Kinds'
      <3>1. UNCHANGED stored /\ UNCHANGED start /\ Reader \subseteq Proc /\ Consumer \in Proc
        BY <2>1 DEF log, Proc
      <3> QED
        BY <1>1, <2>1, <3>1 DEF Kinds
    <2> QED
      BY <1>1, <2>1, <2>2, <2>3, OwnerStays DEF TInv, Distinct
  <1> QED
    BY <1>2, <1>3, <1>4, <1>5, <1>6, <1>7, <1>8, <1>9 DEF Step

(* After a crash the threads start again; the files are as they were.         *)
LEMMA CrashKeeps ==
    ASSUME TInv, Crash
    PROVE  TInv'
  <1>1. /\ crashes' = crashes + 1 /\ pc' = [p \in Proc |-> "idle"]
        /\ out' = [p \in Proc |-> NoFile] /\ todo' = [p \in Proc |-> <<>>]
        /\ shown' = [r \in Reader |-> <<>>] /\ reads' = [r \in Reader |-> 0]
        /\ UNCHANGED <<dir, content, taken, stored, start, alone, overlapped>>
    BY DEF Crash, log
  <1>2. /\ TypeOK /\ Kinds /\ Distinct /\ crashes \in Nat /\ crashes < MaxCrashes
        /\ MaxCrashes \in Nat /\ MaxReads \in Nat
    BY ConstantsAssumption DEF TInv, TypeOK, Crash
  <1>3. TypeOK'
    <2>1. crashes' \in 0 .. MaxCrashes /\ 0 \in 0 .. MaxReads /\ "idle" \in Steps
      BY <1>1, <1>2 DEF Steps
    <2>2. pc' \in [Proc -> Steps] /\ out' \in [Proc -> Inode \cup {NoFile}]
      BY <1>1, <2>1
    <2>3. todo' \in [Proc -> Seq(Message)] /\ shown' \in [Reader -> Seq(Message)]
      BY <1>1
    <2>4. reads' \in [Reader -> 0 .. MaxReads]
      BY <1>1, <2>1
    <2> QED
      BY <1>1, <1>2, <2>1, <2>2, <2>3, <2>4 DEF TypeOK
  <1>4. Kinds'
    <2>1. Reader \subseteq Proc /\ Consumer \in Proc /\ \A p \in Proc : pc'[p] = "idle"
      BY <1>1 DEF Proc
    <2> QED
      BY <1>1, <1>2, <2>1 DEF Kinds
  <1>5. crashes' # 0
    BY <1>1, <1>2
  <1> QED
    BY <1>1, <1>2, <1>3, <1>4, <1>5 DEF TInv, Distinct, TempHasOwner

(* Every behaviour keeps the threads and the names in order.                  *)
LEMMA TInvariance == Spec => []TInv
  <1>1. Init => TInv
    <2> SUFFICES ASSUME Init PROVE TInv
      OBVIOUS
    <2>1. /\ dir["group"] = NoFile /\ dir["temp"] = NoFile /\ \A p \in Proc : pc[p] = "idle"
          /\ stored = <<>> /\ taken = 0 /\ \A p \in Proc : start[p] = 0
          /\ Consumer \in Proc /\ Reader \subseteq Proc /\ Len(stored) = 0
      BY DEF Init, Proc
    <2>2. TypeOK
      <3>1. /\ 0 \in 0 .. MaxMessages /\ 0 \in 0 .. MaxReads /\ 0 \in 0 .. MaxCrashes
            /\ "idle" \in Steps
        BY ConstantsAssumption DEF Steps
      <3>2. content \in [Inode -> Seq(Message)] /\ todo \in [Proc -> Seq(Message)]
        BY DEF Init
      <3>3. shown \in [Reader -> Seq(Message)] /\ stored \in Seq(Message)
        BY DEF Init
      <3>4. /\ dir \in [{"group", "temp"} -> Inode \cup {NoFile}]
            /\ out \in [Proc -> Inode \cup {NoFile}] /\ pc \in [Proc -> Steps]
        BY <3>1 DEF Init
      <3>5. /\ taken \in 0 .. MaxMessages /\ reads \in [Reader -> 0 .. MaxReads]
            /\ crashes \in 0 .. MaxCrashes /\ start \in [Proc -> 0 .. MaxMessages]
            /\ alone \in [Proc -> BOOLEAN] /\ overlapped \in BOOLEAN
        BY <3>1 DEF Init
      <3> QED
        BY <3>2, <3>3, <3>4, <3>5 DEF TypeOK
    <2>3. Kinds
      BY <2>1 DEF Kinds
    <2> QED
      BY <2>1, <2>2, <2>3 DEF TInv, Distinct, TempHasOwner
  <1>2. TInv /\ [Next]_vars => TInv'
    <2> SUFFICES ASSUME TInv, [Next]_vars PROVE TInv'
      OBVIOUS
    <2>1. CASE BeginAppend
      <3>1. Consumer \in Proc
        BY DEF Proc
      <3> QED
        BY <2>1, <3>1, BeginKeeps DEF BeginAppend
    <2>2. ASSUME NEW r \in Reader, BeginRead(r) PROVE TInv'
      <3>1. r \in Proc /\ r # Consumer
        BY ConstantsAssumption DEF Proc
      <3> QED
        BY <2>2, <3>1, BeginKeeps DEF BeginRead
    <2>3. ASSUME NEW p \in Proc, Step(p) PROVE TInv'
      BY <2>3, StepKeeps
    <2>4. CASE Crash
      BY <2>4, CrashKeeps
    <2>5. CASE UNCHANGED vars
      BY <2>5 DEF vars, TInv, TypeOK, Kinds, Distinct, TempHasOwner
    <2> QED
      BY <2>1, <2>2, <2>3, <2>4, <2>5 DEF Next
  <1> QED
    BY <1>1, <1>2, PTL DEF Spec

(* The state always has its type: every line of a file and every line shown   *)
(* is a message the consumer has taken.                                       *)
THEOREM TypeCorrect == Spec => []TypeOK
  <1>1. TInv => TypeOK
    BY DEF TInv
  <1> QED
    BY <1>1, TInvariance, PTL

(* cropToFileHistoryLimit never leaves its temporary file behind, whatever    *)
(* the listener threads and the consumer do to one another.                   *)
THEOREM TempIsRenamed == Spec => []TempHasOwner
  <1>1. TInv => TempHasOwner
    BY DEF TInv
  <1> QED
    BY <1>1, TInvariance, PTL

-----------------------------------------------------------------------------
(* A read that nothing overlaps is cropped.                                 *)

Only(p) == \A q \in Proc \ {p} : pc[q] = "idle"

(* What a reader that is alone knows at each step.                           *)
Cropped(r) ==
    /\ Only(r)
    /\ pc[r] = "open" => Len(todo[r]) <= Limit
    /\ pc[r] = "write" => /\ dir["temp"] = out[r] /\ dir["temp"] # NoFile
                          /\ Len(Lines("temp")) + Len(todo[r]) <= Limit
    /\ pc[r] \in {"remove", "rename"} => dir["temp"] # NoFile /\ Len(Lines("temp")) <= Limit
    /\ pc[r] = "read" => Len(Lines("group")) <= Limit

LoneRead(r) == alone[r] => IF pc[r] = "idle" THEN Len(shown[r]) <= Limit ELSE Cropped(r)

Lone == crashes = 0 => \A r \in Reader : LoneRead(r)

(* A step of a reader's own operation.                                       *)
LEMMA OwnStepIsLone ==
    ASSUME TInv, NEW r \in Reader, LoneRead(r), crashes = 0, Step(r)
    PROVE  LoneRead(r)'
  <1> SUFFICES ASSUME alone'[r]
               PROVE  IF pc'[r] = "idle" THEN Len(shown'[r]) <= Limit ELSE Cropped(r)'
    BY DEF LoneRead
  <1>1. /\ TypeOK /\ Kinds /\ TempHasOwner /\ r \in Proc /\ r # Consumer /\ AfterCrop(r) = "read"
        /\ Limit \in Nat /\ Kept(r) = Limit /\ \A l \in {"group", "temp"} : Len(Lines(l)) \in Nat
        /\ todo[r] \in Seq(Message) /\ Len(todo[r]) \in Nat
    <2>1. TypeOK /\ Kinds /\ TempHasOwner /\ r \in Proc /\ r # Consumer /\ Limit \in Nat
      BY ConstantsAssumption DEF TInv, Proc
    <2>2. \A l \in {"group", "temp"} : Len(Lines(l)) \in Nat
      BY <2>1, LinesType
    <2> QED
      BY <2>1, <2>2 DEF TypeOK, AfterCrop, Kept
  <1>2. /\ pc[r] \notin {"idle", "append", "log"} /\ alone'[r] = alone[r]
        /\ \A q \in Proc : q # r => pc'[q] = pc[q]
    <2>1. CASE Crop(r)
      BY <1>1, <2>1, CropEffect DEF log
    <2>2. CASE OpenTemp(r)
      BY <1>1, <2>2, OpenTempEffect DEF log
    <2>3. CASE WriteTemp(r)
      BY <1>1, <2>3, WriteTempEffect DEF log
    <2>4. CASE RemoveGroup(r)
      BY <1>1, <2>4, RemoveEffect DEF log
    <2>5. CASE RenameTemp(r)
      BY <1>1, <2>5, RenameEffect DEF log
    <2>6. CASE OpenGroup(r)
      BY <1>1, <2>6, OpenGroupEffect DEF Kinds
    <2>7. CASE AppendMessage(r)
      BY <1>1, <2>7, AppendEffect
    <2>8. CASE ReadGroup(r)
      BY <1>1, <2>8, ReadEffect DEF log
    <2> QED
      BY <2>1, <2>2, <2>3, <2>4, <2>5, <2>6, <2>7, <2>8 DEF Step
  <1>3. Cropped(r) /\ Only(r) /\ Only(r)'
    BY <1>2 DEF LoneRead, Cropped, Only
  <1>4. CASE Crop(r)
    <2>1. UNCHANGED <<dir, content>>
      BY <1>1, <1>4, CropEffect
    <2>2. Lines("group")' = Lines("group")
      BY <2>1 DEF Lines
    <2>3. CASE /\ Len(Lines("group")) > Limit /\ pc'[r] = "open"
               /\ todo'[r] = LastLines(Lines("group"), Kept(r))
      <3>1. Lines("group") \in Seq(Message)
        BY <1>1, LinesType
      <3>2. Len(todo'[r]) = Limit
        BY <1>1, <2>3, <3>1, LastLinesAre
      <3> QED
        BY <1>1, <1>3, <2>3, <3>2 DEF Cropped
    <2>4. CASE Len(Lines("group")) <= Limit /\ pc'[r] = "read"
      BY <1>3, <2>2, <2>4 DEF Cropped
    <2> QED
      BY <1>1, <1>4, <2>3, <2>4, CropEffect
  <1>5. CASE OpenTemp(r)
    <2>1. /\ pc[r] = "open" /\ pc'[r] = IF todo[r] = <<>> THEN "remove" ELSE "write"
          /\ dir'["temp"] \in Inode /\ out'[r] = dir'["temp"] /\ todo' = todo
          /\ Lines("temp")' = Lines("temp") /\ NoFile \notin Inode
      BY <1>1, <1>5, OpenTempEffect, ConstantsAssumption
    <2>2. dir["temp"] = NoFile
      BY <1>1, <1>3, <2>1 DEF TempHasOwner, Only
    <2>3. Len(Lines("temp")') = 0
      BY <2>1, <2>2 DEF Lines
    <2>4. Len(todo[r]) <= Limit
      BY <1>3, <2>1 DEF Cropped
    <2> QED
      BY <1>1, <1>3, <2>1, <2>3, <2>4 DEF Cropped
  <1>6. CASE WriteTemp(r)
    <2>1. /\ pc[r] = "write" /\ todo[r] # <<>> /\ todo'[r] = Tail(todo[r])
          /\ pc'[r] = IF todo'[r] = <<>> THEN "remove" ELSE "write"
          /\ dir["temp"] = out[r] => Lines("temp")' = Append(Lines("temp"), Head(todo[r]))
          /\ dir' = dir /\ out' = out
      BY <1>1, <1>6, WriteTempEffect
    <2>2. /\ dir["temp"] = out[r] /\ dir["temp"] # NoFile
          /\ Len(Lines("temp")) + Len(todo[r]) <= Limit
      BY <1>3, <2>1 DEF Cropped
    <2>3. Lines("temp") \in Seq(Message)
      BY <1>1, LinesType
    <2>4. /\ Len(Lines("temp")') + Len(todo'[r]) = Len(Lines("temp")) + Len(todo[r])
          /\ todo'[r] \in Seq(Message)
      <3>1. Lines("temp")' = Append(Lines("temp"), Head(todo[r])) /\ todo'[r] = Tail(todo[r])
        BY <2>1, <2>2
      <3>2. /\ Len(Append(Lines("temp"), Head(todo[r]))) + Len(Tail(todo[r]))
                  = Len(Lines("temp")) + Len(todo[r])
            /\ Tail(todo[r]) \in Seq(Message)
        <4> DEFINE m == Lines("temp")
               t == todo[r]
        <4>1. m \in Seq(Message) /\ t \in Seq(Message) /\ t # <<>>
          BY <1>1, <2>1, <2>3
        <4> HIDE DEF m, t
        <4>2. /\ Len(Append(m, Head(t))) + Len(Tail(t)) = Len(m) + Len(t)
              /\ Tail(t) \in Seq(Message)
          BY <4>1, OneLineFurther
        <4> QED
          BY <4>2 DEF m, t
      <3> QED
        BY <3>1, <3>2
    <2>5. Len(Lines("temp")') + Len(todo'[r]) <= Limit
      BY <2>2, <2>4
    <2>6. todo'[r] = <<>> => Len(todo'[r]) = 0
      OBVIOUS
    <2>7. Len(Lines("temp")') \in Nat
      BY <1>1, <2>1, <2>2, <2>3, OneLineFurther, AppendedLines
    <2>8. todo'[r] = <<>> => Len(Lines("temp")') <= Limit
      BY <2>5, <2>6, <2>7
    <2> QED
      BY <1>3, <2>1, <2>2, <2>5, <2>8 DEF Cropped
  <1>7. CASE RemoveGroup(r)
    <2>1. /\ pc[r] = "remove" /\ pc'[r] = "rename" /\ dir'["temp"] = dir["temp"]
          /\ Lines("temp")' = Lines("temp")
      BY <1>1, <1>7, RemoveEffect
    <2> QED
      BY <1>3, <2>1 DEF Cropped
  <1>8. CASE RenameTemp(r)
    <2>1. /\ pc[r] = "rename" /\ pc'[r] = "read"
          /\ dir["temp"] # NoFile => Lines("group")' = Lines("temp")
      BY <1>1, <1>8, RenameEffect
    <2> QED
      BY <1>3, <2>1 DEF Cropped
  <1>9. CASE ReadGroup(r)
    <2>1. pc[r] = "read" /\ pc'[r] = "idle" /\ shown'[r] = Lines("group")
      BY <1>1, <1>9, ReadEffect
    <2> QED
      BY <1>3, <2>1 DEF Cropped
  <1>10. ~OpenGroup(r) /\ ~AppendMessage(r)
    BY <1>2 DEF OpenGroup, AppendMessage
  <1> QED
    BY <1>4, <1>5, <1>6, <1>7, <1>8, <1>9, <1>10 DEF Step

(* A step of another thread: the reader is not alone, or not reading.         *)
LEMMA OtherStepIsLone ==
    ASSUME TInv, NEW r \in Reader, LoneRead(r), NEW p \in Proc, p # r, Step(p)
    PROVE  LoneRead(r)'
  <1>1. TypeOK /\ r \in Proc
    BY DEF TInv, Proc
  <1>2. pc[p] # "idle" /\ pc'[r] = pc[r] /\ alone'[r] = alone[r] /\ shown'[r] = shown[r]
    <2>1. CASE Crop(p)
      BY <1>1, <2>1, CropEffect DEF log
    <2>2. CASE OpenTemp(p)
      BY <1>1, <2>2, OpenTempEffect DEF log
    <2>3. CASE WriteTemp(p)
      BY <1>1, <2>3, WriteTempEffect DEF log
    <2>4. CASE RemoveGroup(p)
      BY <1>1, <2>4, RemoveEffect DEF log
    <2>5. CASE RenameTemp(p)
      BY <1>1, <2>5, RenameEffect DEF log
    <2>6. CASE OpenGroup(p)
      BY <1>1, <2>6, OpenGroupEffect DEF log
    <2>7. CASE AppendMessage(p)
      BY <1>1, <2>7, AppendEffect
    <2>8. CASE ReadGroup(p)
      BY <1>1, <2>8, ReadEffect DEF log
    <2> QED
      BY <2>1, <2>2, <2>3, <2>4, <2>5, <2>6, <2>7, <2>8 DEF Step
  <1>3. alone[r] => pc[r] = "idle"
    BY <1>2 DEF LoneRead, Cropped, Only
  <1> QED
    BY <1>2, <1>3 DEF LoneRead

(* An operation begins: its thread is alone only if no other has begun one.   *)
LEMMA BeginIsLone ==
    ASSUME TypeOK, NEW r \in Reader, LoneRead(r), NEW p \in Proc, Begin(p), shown' = shown
    PROVE  LoneRead(r)'
  <1>1. /\ pc[p] = "idle" /\ \A q \in Proc : pc'[q] = IF q = p THEN "crop" ELSE pc[q]
        /\ \A q \in Proc : alone'[q] => IF q = p THEN Busy = {} ELSE alone[q] /\ q \notin Busy
        /\ r \in Proc
    BY BeginEffect DEF Proc
  <1>2. ASSUME r # p, alone'[r] PROVE pc'[r] = "idle" /\ Len(shown'[r]) <= Limit
    BY <1>1, <1>2 DEF LoneRead, Busy
  <1>3. ASSUME r = p, alone'[r] PROVE pc'[r] # "idle" /\ Cropped(r)'
    <2>1. Only(r)' /\ pc'[r] = "crop"
      BY <1>1, <1>3 DEF Only, Busy
    <2> QED
      BY <2>1 DEF Cropped
  <1> QED
    BY <1>2, <1>3 DEF LoneRead

(* In every behaviour.                                                       *)
LEMMA LoneInvariance == Spec => []Lone
  <1>1. Init => Lone
    <2> SUFFICES ASSUME Init, NEW r \in Reader PROVE pc[r] = "idle" /\ Len(shown[r]) <= Limit
      BY DEF Lone, LoneRead
    <2> QED
      BY ConstantsAssumption DEF Init, Proc
  <1>2. TInv /\ Lone /\ [Next]_vars => Lone'
    <2> SUFFICES ASSUME TInv, Lone, [Next]_vars, crashes' = 0, NEW r \in Reader
                 PROVE  LoneRead(r)'
      BY DEF Lone
    <2>1. TypeOK /\ crashes \in Nat /\ r \in Proc
      BY ConstantsAssumption DEF TInv, TypeOK, Proc
    <2>2. CASE BeginAppend
      <3>1. Consumer \in Proc /\ LoneRead(r) /\ Begin(Consumer) /\ shown' = shown
        BY <2>2 DEF Proc, Lone, BeginAppend
      <3> QED
        BY <2>1, <3>1, BeginIsLone
    <2>3. ASSUME NEW q \in Reader, BeginRead(q) PROVE LoneRead(r)'
      <3>1. q \in Proc /\ LoneRead(r) /\ Begin(q) /\ shown' = shown
        BY <2>3 DEF Proc, Lone, BeginRead
      <3> QED
        BY <2>1, <3>1, BeginIsLone
    <2>4. ASSUME NEW p \in Proc, Step(p) PROVE LoneRead(r)'
      <3>1. crashes = 0
        BY <2>4 DEF Step, Crop, OpenTemp, WriteTemp, RemoveGroup, RenameTemp, OpenGroup,
                    AppendMessage, ReadGroup
      <3>2. LoneRead(r)
        BY <3>1 DEF Lone
      <3> QED
        BY <2>4, <3>1, <3>2, OwnStepIsLone, OtherStepIsLone
    <2>5. ~Crash
      BY <2>1 DEF Crash
    <2>6. CASE UNCHANGED vars
      BY <2>6 DEF vars, Lone, LoneRead, Cropped, Only, Lines
    <2> QED
      BY <2>2, <2>3, <2>4, <2>5, <2>6 DEF Next
  <1> QED
    BY <1>1, <1>2, TInvariance, PTL DEF Spec

(* Whatever races have done to the file before, readGroupHistoryMessages shows *)
(* at most Limit lines when no other operation overlaps it.                    *)
THEOREM LoneReadsAreCropped == Spec => []LoneReadIsCropped
  <1>1. Lone => LoneReadIsCropped
    BY DEF Lone, LoneRead, LoneReadIsCropped
  <1> QED
    BY <1>1, LoneInvariance, PTL

-----------------------------------------------------------------------------
(* A crash destroys no recent message.                                      *)

(* s and t have the same last n lines, as far as both go.                     *)
Ends(s, t, n) == \A i \in 0 .. n - 1 : i < Len(s) /\ i < Len(t) => s[Len(s) - i] = t[Len(t) - i]

Recent == Limit - 1

(* The group's file ends as the messages stored do; the recent ones that it   *)
(* is too short for are in the temporary file.                                *)
CoveredBy(g, m, t) ==
    /\ Ends(g, t, Recent)
    /\ \A i \in 0 .. Recent - 1 : Len(g) <= i /\ i < Len(t) => t[Len(t) - i] \in ToSet(m)

Covered == CoveredBy(Lines("group"), Lines("temp"), stored)

(* s alone has every recent message.                                         *)
Whole(s) == Recent <= Len(s) /\ Ends(s, stored, Recent)

(* What the one thread in an operation has safely on disk at each step.      *)
Saved(p) ==
    /\ Only(p)
    /\ pc[p] \in {"open", "write", "remove"} => Limit < Len(Lines("group"))
    /\ pc[p] = "open" => Whole(todo[p])
    /\ pc[p] = "write" => /\ dir["temp"] = out[p] /\ dir["temp"] # NoFile
                          /\ Whole(Lines("temp") \o todo[p])
    /\ pc[p] \in {"remove", "rename"} => dir["temp"] # NoFile /\ Whole(Lines("temp"))
    /\ pc[p] = "rename" => dir["group"] = NoFile
    /\ pc[p] = "log" => dir["group"] = out[p] /\ dir["group"] # NoFile

Rec == ~overlapped => Covered /\ \A p \in Proc : pc[p] # "idle" => Saved(p)

(* The last lines of a file end as the file does.                            *)
LEMMA LastLinesEnd ==
    ASSUME NEW S, NEW s \in Seq(S), NEW t \in Seq(S), NEW n \in Nat, NEW k \in Int, Ends(s, t, k)
    PROVE  Ends(LastLines(s, n), t, k)
  <1> SUFFICES ASSUME NEW i \in 0 .. k - 1, i < Len(LastLines(s, n)), i < Len(t)
               PROVE  LastLines(s, n)[Len(LastLines(s, n)) - i] = t[Len(t) - i]
    BY DEF Ends
  <1> DEFINE u == LastLines(s, n)
  <1>1. /\ u \in Seq(S) /\ Len(u) = IF Len(s) > n THEN n ELSE Len(s)
        /\ \A j \in 0 .. Len(u) - 1 : u[Len(u) - j] = s[Len(s) - j]
        /\ i < Len(u)
    BY LastLinesAre
  <1> HIDE DEF u
  <1>2. i \in Nat /\ Len(s) \in Nat /\ Len(u) \in Nat
    BY <1>1
  <1>3. i < Len(s) /\ i \in 0 .. Len(u) - 1
    BY <1>1, <1>2
  <1>4. s[Len(s) - i] = t[Len(t) - i]
    BY <1>3 DEF Ends
  <1>5. u[Len(u) - i] = t[Len(t) - i]
    BY <1>1, <1>3, <1>4
  <1> QED
    BY <1>5 DEF u

(* What is in front of the last lines does not matter.                       *)
LEMMA ConcatEnds ==
    ASSUME NEW S, NEW s \in Seq(S), NEW u \in Seq(S), NEW t \in Seq(S), NEW k \in Int,
           k <= Len(u), Ends(u, t, k)
    PROVE  /\ Ends(s \o u, t, k) /\ k <= Len(s \o u) /\ s \o u \in Seq(S)
           /\ Len(s \o u) = Len(s) + Len(u)
  <1>1. /\ s \o u \in Seq(S) /\ Len(s \o u) = Len(s) + Len(u)
        /\ \A i \in 1 .. Len(s) + Len(u) : (s \o u)[i] = IF i <= Len(s) THEN s[i] ELSE u[i - Len(s)]
    BY ConcatProperties
  <1>2. Len(s) \in Nat /\ Len(u) \in Nat
    OBVIOUS
  <1>3. ASSUME NEW i \in 0 .. k - 1, i < Len(t)
        PROVE  (s \o u)[Len(s \o u) - i] = t[Len(t) - i]
    <2>1. /\ Len(s) + Len(u) - i \in 1 .. Len(s) + Len(u) /\ ~(Len(s) + Len(u) - i <= Len(s))
          /\ Len(s) + Len(u) - i - Len(s) = Len(u) - i /\ i < Len(u)
      BY <1>2
    <2>2. (s \o u)[Len(s) + Len(u) - i] = u[Len(u) - i]
      BY <1>1, <2>1
    <2>3. u[Len(u) - i] = t[Len(t) - i]
      BY <1>3, <2>1 DEF Ends
    <2> QED
      BY <1>1, <2>2, <2>3
  <1> QED
    BY <1>1, <1>2, <1>3 DEF Ends

(* A message appended to both leaves them ending alike.                      *)
LEMMA AppendEnds ==
    ASSUME NEW S, NEW s \in Seq(S), NEW t \in Seq(S), NEW m \in S, NEW k \in Int, Ends(s, t, k)
    PROVE  Ends(Append(s, m), Append(t, m), k) /\ Ends(Append(s, m), Append(t, m), k + 1)
  <1> DEFINE a == Append(s, m)
             b == Append(t, m)
  <1>1. /\ Len(a) = Len(s) + 1 /\ a[Len(s) + 1] = m /\ \A i \in 1 .. Len(s) : a[i] = s[i]
        /\ Len(b) = Len(t) + 1 /\ b[Len(t) + 1] = m /\ \A i \in 1 .. Len(t) : b[i] = t[i]
        /\ Len(s) \in Nat /\ Len(t) \in Nat
    BY AppendedLines
  <1> HIDE DEF a, b
  <1>2. ASSUME NEW i \in 0 .. k, i < Len(a), i < Len(b)
        PROVE  a[Len(a) - i] = b[Len(b) - i]
    <2>1. CASE i = 0
      BY <1>1, <2>1
    <2>2. CASE i # 0
      <3>1. /\ i - 1 \in 0 .. k - 1 /\ i - 1 < Len(s) /\ i - 1 < Len(t)
            /\ Len(a) - i \in 1 .. Len(s) /\ Len(b) - i \in 1 .. Len(t)
            /\ Len(a) - i = Len(s) - (i - 1) /\ Len(b) - i = Len(t) - (i - 1)
        BY <1>1, <1>2, <2>2
      <3>2. s[Len(s) - (i - 1)] = t[Len(t) - (i - 1)]
        BY <3>1 DEF Ends
      <3>3. a[Len(a) - i] = s[Len(a) - i] /\ b[Len(b) - i] = t[Len(b) - i]
        BY <1>1, <3>1
      <3> QED
        BY <3>1, <3>2, <3>3
    <2> QED
      BY <2>1, <2>2
  <1>3. Ends(a, b, k + 1)
    <2>1. k + 1 - 1 = k
      OBVIOUS
    <2> QED
      BY <1>2, <2>1 DEF Ends
  <1>4. Ends(a, b, k)
    BY <1>2 DEF Ends
  <1> QED
    BY <1>3, <1>4 DEF a, b

(* A file that has every recent message covers them.                         *)
LEMMA WholeCovers ==
    ASSUME NEW S, NEW g \in Seq(S), NEW m \in Seq(S), NEW t \in Seq(S), NEW u \in Seq(S),
           Recent <= Len(u), Ends(u, t, Recent)
    PROVE  /\ g = u => CoveredBy(g, m, t)
           /\ g = <<>> /\ m = u => CoveredBy(g, m, t)
  <1>1. Recent \in Nat
    BY ConstantsAssumption DEF Recent
  <1>2. Len(u) \in Nat /\ DOMAIN u = 1 .. Len(u)
    OBVIOUS
  <1>3. \A i \in 0 .. Recent - 1 : i < Len(u) /\ i \in Nat /\ Len(u) - i \in 1 .. Len(u)
    BY <1>1, <1>2
  <1>4. ASSUME g = u PROVE CoveredBy(g, m, t)
    BY <1>1, <1>2, <1>3, <1>4 DEF CoveredBy
  <1>5. ASSUME g = <<>>, m = u PROVE CoveredBy(g, m, t)
    <2>1. Len(g) = 0
      BY <1>5
    <2>2. Ends(g, t, Recent)
      BY <1>3, <2>1 DEF Ends
    <2>3. ASSUME NEW i \in 0 .. Recent - 1, i < Len(t) PROVE t[Len(t) - i] \in ToSet(m)
      <3>1. u[Len(u) - i] = t[Len(t) - i] /\ Len(u) - i \in DOMAIN u
        BY <1>2, <1>3, <2>3 DEF Ends
      <3> QED
        BY <1>5, <3>1 DEF ToSet
    <2> QED
      BY <2>2, <2>3 DEF CoveredBy
  <1> QED
    BY <1>4, <1>5

(* A message that is stored is covered with those before it.                 *)
LEMMA AppendCovers ==
    ASSUME NEW S, NEW g \in Seq(S), NEW m \in Seq(S), NEW t \in Seq(S), NEW x \in S,
           CoveredBy(g, m, t)
    PROVE  CoveredBy(Append(g, x), m, Append(t, x))
  <1>1. Recent \in Nat
    BY ConstantsAssumption DEF Recent
  <1>2. Ends(Append(g, x), Append(t, x), Recent)
    BY <1>1, AppendEnds DEF CoveredBy
  <1>3. /\ Len(Append(g, x)) = Len(g) + 1 /\ Len(Append(t, x)) = Len(t) + 1
        /\ \A i \in 1 .. Len(t) : Append(t, x)[i] = t[i] /\ Len(g) \in Nat /\ Len(t) \in Nat
    BY AppendedLines
  <1>4. ASSUME NEW i \in 0 .. Recent - 1, Len(g) + 1 <= i, i < Len(t) + 1
        PROVE  Append(t, x)[Len(t) + 1 - i] \in ToSet(m)
    <2>0. Len(g) \in Nat /\ Len(t) \in Nat
      OBVIOUS
    <2>1. /\ i - 1 \in 0 .. Recent - 1 /\ Len(g) <= i - 1 /\ i - 1 < Len(t)
          /\ Len(t) + 1 - i \in 1 .. Len(t) /\ Len(t) + 1 - i = Len(t) - (i - 1)
      BY <1>1, <1>4, <2>0
    <2>2. t[Len(t) - (i - 1)] \in ToSet(m)
      BY <2>1 DEF CoveredBy
    <2> QED
      BY <1>3, <2>1, <2>2
  <1> QED
    BY <1>2, <1>3, <1>4 DEF CoveredBy

(* A step of the one operation under way keeps the recent messages on disk.   *)
LEMMA StepSaves ==
    ASSUME TInv, Covered, NEW p \in Proc, Saved(p), Step(p)
    PROVE  Covered' /\ (pc'[p] # "idle" => Saved(p)')
  <1> DEFINE g == Lines("group")
             m == Lines("temp")
  <1>1. /\ TypeOK /\ Kinds /\ g \in Seq(Message) /\ m \in Seq(Message)
        /\ stored \in Seq(Message) /\ todo[p] \in Seq(Message) /\ Recent \in Nat /\ Limit \in Nat
        /\ CoveredBy(g, m, stored) /\ NoFile \notin Inode
    <2>1. TypeOK /\ Kinds
      BY DEF TInv
    <2> QED
      BY <2>1, LinesType, ConstantsAssumption DEF TypeOK, Recent, Covered
  <1>2. /\ \A q \in Proc : q # p => pc'[q] = pc[q]
        /\ ~AppendMessage(p) => stored' = stored
    <2>1. CASE Crop(p)
      BY <1>1, <2>1, CropEffect DEF log
    <2>2. CASE OpenTemp(p)
      BY <1>1, <2>2, OpenTempEffect DEF log
    <2>3. CASE WriteTemp(p)
      BY <1>1, <2>3, WriteTempEffect DEF log
    <2>4. CASE RemoveGroup(p)
      BY <1>1, <2>4, RemoveEffect DEF log
    <2>5. CASE RenameTemp(p)
      BY <1>1, <2>5, RenameEffect DEF log
    <2>6. CASE OpenGroup(p)
      BY <1>1, <2>6, OpenGroupEffect DEF log
    <2>7. CASE AppendMessage(p)
      BY <2>7, AppendEffect
    <2>8. CASE ReadGroup(p)
      BY <1>1, <2>8, ReadEffect DEF log
    <2> QED
      BY <2>1, <2>2, <2>3, <2>4, <2>5, <2>6, <2>7, <2>8 DEF Step
  <1>3. Only(p)'
    BY <1>2 DEF Saved, Only
  <1>4. ASSUME Lines("group")' = g, Lines("temp")' = m, stored' = stored PROVE Covered'
    BY <1>4 DEF Covered
  <1>5. CASE Crop(p)
    <2>1. UNCHANGED <<dir, content>> /\ stored' = stored
      BY <1>1, <1>5, CropEffect DEF log
    <2>2. Lines("group")' = g /\ Lines("temp")' = m
      BY <2>1 DEF Lines
    <2>3. CASE Len(g) > Limit /\ pc'[p] = "open" /\ todo'[p] = LastLines(g, Kept(p))
      <3>1. Kept(p) \in Nat /\ Recent <= Kept(p) /\ Len(g) \in Nat
        BY <1>1, KeptIsNat DEF Recent
      <3>2. /\ Ends(todo'[p], stored, Recent)
            /\ Len(todo'[p]) = IF Len(g) > Kept(p) THEN Kept(p) ELSE Len(g)
        <4>1. Ends(g, stored, Recent) /\ Recent \in Int
          BY <1>1 DEF CoveredBy
        <4> HIDE DEF g
        <4>2. Ends(LastLines(g, Kept(p)), stored, Recent)
          BY <1>1, <3>1, <4>1, LastLinesEnd
        <4>3. Len(LastLines(g, Kept(p))) = IF Len(g) > Kept(p) THEN Kept(p) ELSE Len(g)
          BY <1>1, <3>1, LastLinesAre
        <4> QED
          BY <2>3, <4>2, <4>3
      <3>3. Recent <= Len(todo'[p])
        BY <1>1, <2>3, <3>1, <3>2 DEF Recent
      <3>4. Whole(todo[p])'
        BY <2>1, <3>2, <3>3 DEF Whole
      <3> QED
        BY <1>3, <1>4, <2>1, <2>2, <2>3, <3>4 DEF Saved
    <2>4. CASE pc'[p] = AfterCrop(p)
      BY <1>3, <1>4, <2>1, <2>2, <2>4, AfterCropFits DEF Saved
    <2> QED
      BY <1>1, <1>5, <2>3, <2>4, CropEffect
  <1>6. CASE OpenTemp(p)
    <2>1. /\ pc[p] = "open" /\ pc'[p] = IF todo[p] = <<>> THEN "remove" ELSE "write"
          /\ dir'["temp"] \in Inode /\ out'[p] = dir'["temp"] /\ todo' = todo /\ stored' = stored
          /\ Lines("group")' = g /\ Lines("temp")' = m
      BY <1>1, <1>6, OpenTempEffect DEF log
    <2>2. Limit < Len(g) /\ Recent <= Len(todo[p]) /\ Ends(todo[p], stored, Recent)
      BY <2>1 DEF Saved, Whole
    <2>3. Ends(m \o todo[p], stored, Recent) /\ Recent <= Len(m \o todo[p])
      <3> HIDE DEF m, g
      <3> QED
        BY <1>1, <2>2, ConcatEnds
    <2>4. Whole(Lines("temp") \o todo[p])'
      BY <2>1, <2>3 DEF Whole
    <2>5. ASSUME todo[p] = <<>> PROVE Whole(Lines("temp"))'
      <3>1. Len(todo[p]) = 0 /\ Len(m) \in Nat
        BY <1>1, <2>5
      <3>2. Recent = 0
        BY <1>1, <2>2, <3>1
      <3> QED
        BY <2>1, <3>1, <3>2 DEF Whole, Ends
    <2> QED
      BY <1>1, <1>3, <1>4, <2>1, <2>2, <2>4, <2>5 DEF Saved
  <1>7. CASE WriteTemp(p)
    <2>1. /\ pc[p] = "write" /\ todo[p] # <<>> /\ todo'[p] = Tail(todo[p])
          /\ pc'[p] = IF todo'[p] = <<>> THEN "remove" ELSE "write"
          /\ dir["temp"] = out[p] => /\ Lines("temp")' = Append(m, Head(todo[p]))
                                     /\ Lines("group")' = g
          /\ dir' = dir /\ out' = out /\ stored' = stored
      BY <1>7, WriteTempEffect DEF log
    <2>2. /\ dir["temp"] = out[p] /\ dir["temp"] # NoFile /\ Limit < Len(g)
          /\ Whole(m \o todo[p])
      BY <2>1 DEF Saved
    <2>3. /\ Append(m, Head(todo[p])) \o Tail(todo[p]) = m \o todo[p]
          /\ Append(m, Head(todo[p])) \in Seq(Message)
      <3> HIDE DEF m
      <3>1. /\ Append(m, Head(todo[p])) \o Tail(todo[p]) = m \o todo[p]
            /\ Head(todo[p]) \in Message
        BY <1>1, <2>1, OneLineFurther
      <3> QED
        BY <1>1, <3>1, AppendedLines
    <2>4. Whole(Lines("temp") \o todo[p])'
      BY <2>1, <2>2, <2>3 DEF Whole
    <2>5. ASSUME todo'[p] = <<>> PROVE Whole(Lines("temp"))'
      <3>1. Lines("temp")' \in Seq(Message) /\ todo'[p] = <<>>
        BY <2>1, <2>2, <2>3, <2>5
      <3>2. Lines("temp")' \o todo'[p] = Lines("temp")'
        BY <3>1, ConcatEmptySeq
      <3> QED
        BY <2>4, <3>2 DEF Whole
    <2>6. Covered'
      <3>1. Lines("group")' = g /\ stored' = stored
        BY <2>1, <2>2
      <3>2. Ends(g, stored, Recent) /\ \A i \in 0 .. Recent - 1 : ~(Len(g) <= i)
        BY <1>1, <2>2 DEF CoveredBy, Recent
      <3> QED
        BY <3>1, <3>2 DEF Covered, CoveredBy
    <2> QED
      BY <1>3, <2>1, <2>2, <2>4, <2>5, <2>6 DEF Saved
  <1>8. CASE RemoveGroup(p)
    <2>1. /\ pc[p] = "remove" /\ pc'[p] = "rename" /\ dir'["group"] = NoFile
          /\ dir'["temp"] = dir["temp"] /\ stored' = stored
          /\ Lines("group")' = <<>> /\ Lines("temp")' = m
      BY <1>1, <1>8, RemoveEffect DEF log
    <2>2. dir["temp"] # NoFile /\ Recent <= Len(m) /\ Ends(m, stored, Recent)
      BY <2>1 DEF Saved, Whole
    <2>3. CoveredBy(<<>>, m, stored)
      <3>1. <<>> \in Seq(Message)
        OBVIOUS
      <3> HIDE DEF m, g
      <3> QED
        BY <1>1, <2>2, <3>1, WholeCovers
    <2>4. Covered' /\ Whole(Lines("temp"))'
      BY <2>1, <2>2, <2>3 DEF Covered, Whole
    <2> QED
      BY <1>3, <2>1, <2>2, <2>4 DEF Saved
  <1>9. CASE RenameTemp(p)
    <2>1. /\ pc[p] = "rename" /\ pc'[p] = AfterCrop(p) /\ Lines("temp")' = <<>>
          /\ dir["temp"] # NoFile => Lines("group")' = m
          /\ stored' = stored
      BY <1>1, <1>9, RenameEffect DEF log
    <2>2. dir["temp"] # NoFile /\ Recent <= Len(m) /\ Ends(m, stored, Recent)
      BY <2>1 DEF Saved, Whole
    <2>3. CoveredBy(m, <<>>, stored)
      <3>1. <<>> \in Seq(Message)
        OBVIOUS
      <3> HIDE DEF m, g
      <3> QED
        BY <1>1, <2>2, <3>1, WholeCovers
    <2>4. Covered'
      BY <2>1, <2>2, <2>3 DEF Covered
    <2> QED
      BY <1>3, <2>1, <2>4, AfterCropFits DEF Saved
  <1>10. CASE OpenGroup(p)
    <2>1. /\ pc'[p] = "log" /\ dir'["group"] \in Inode /\ out'[p] = dir'["group"]
          /\ Lines("group")' = g /\ Lines("temp")' = m /\ stored' = stored
      BY <1>1, <1>10, OpenGroupEffect DEF log
    <2> QED
      BY <1>1, <1>3, <1>4, <2>1 DEF Saved
  <1>11. CASE AppendMessage(p)
    <2>1. /\ pc[p] = "log" /\ pc'[p] = "idle" /\ taken \in Message
          /\ dir["group"] = out[p] => /\ Lines("group")' = Append(g, taken)
                                      /\ Lines("temp")' = m
          /\ stored' = Append(stored, taken)
      BY <1>11, AppendEffect
    <2>2. dir["group"] = out[p]
      BY <2>1 DEF Saved
    <2>3. CoveredBy(Append(g, taken), m, Append(stored, taken))
      <3> HIDE DEF m, g
      <3> QED
        BY <1>1, <2>1, AppendCovers
    <2> QED
      BY <2>1, <2>2, <2>3 DEF Covered
  <1>12. CASE ReadGroup(p)
    <2>1. pc'[p] = "idle" /\ UNCHANGED <<dir, content>> /\ stored' = stored
      BY <1>12, ReadEffect DEF log
    <2> QED
      BY <1>4, <2>1 DEF Lines
  <1> QED
    BY <1>5, <1>6, <1>7, <1>8, <1>9, <1>10, <1>11, <1>12 DEF Step

(* No step of an operation changes who overlaps whom, or counts a crash.      *)
LEMMA StepLeavesLog ==
    ASSUME TInv, NEW p \in Proc, Step(p)
    PROVE  /\ overlapped' = overlapped /\ crashes' = crashes /\ pc[p] # "idle"
           /\ \A q \in Proc : q # p => pc'[q] = pc[q]
  <1>1. TypeOK
    BY DEF TInv
  <1>2. CASE Crop(p)
    BY <1>1, <1>2, CropEffect DEF log
  <1>3. CASE OpenTemp(p)
    BY <1>1, <1>3, OpenTempEffect DEF log
  <1>4. CASE WriteTemp(p)
    BY <1>4, WriteTempEffect DEF log
  <1>5. CASE RemoveGroup(p)
    BY <1>1, <1>5, RemoveEffect DEF log
  <1>6. CASE RenameTemp(p)
    BY <1>1, <1>6, RenameEffect DEF log
  <1>7. CASE OpenGroup(p)
    BY <1>1, <1>7, OpenGroupEffect DEF log
  <1>8. CASE AppendMessage(p)
    BY <1>8, AppendEffect
  <1>9. CASE ReadGroup(p)
    BY <1>9, ReadEffect DEF log
  <1> QED
    BY <1>2, <1>3, <1>4, <1>5, <1>6, <1>7, <1>8, <1>9 DEF Step

(* In every behaviour, crashes included.                                     *)
LEMMA RecInvariance == Spec => []Rec
  <1>1. Init => Rec
    <2> SUFFICES ASSUME Init PROVE Covered /\ \A p \in Proc : pc[p] = "idle"
      BY DEF Rec
    <2>1. Len(stored) = 0 /\ Recent \in Nat
      BY ConstantsAssumption DEF Init, Recent
    <2> QED
      BY <2>1 DEF Init, Covered, CoveredBy, Ends
  <1>2. TInv /\ Rec /\ [Next]_vars => Rec'
    <2> SUFFICES ASSUME TInv, Rec, [Next]_vars, ~overlapped'
                 PROVE  Covered' /\ \A p \in Proc : pc'[p] # "idle" => Saved(p)'
      BY DEF Rec
    <2>1. TypeOK
      BY DEF TInv
    <2>2. ASSUME NEW p \in Proc, Begin(p), UNCHANGED <<dir, content, stored>>
          PROVE  Covered' /\ \A q \in Proc : pc'[q] # "idle" => Saved(q)'
      <3>1. /\ \A q \in Proc : pc'[q] = IF q = p THEN "crop" ELSE pc[q]
            /\ ~overlapped /\ Busy = {}
        BY <2>1, <2>2, BeginEffect
      <3>2. \A q \in Proc : pc[q] = "idle"
        BY <3>1 DEF Busy
      <3>3. Covered'
        BY <2>2, <3>1 DEF Rec, Covered, Lines
      <3>4. Saved(p)'
        BY <3>1, <3>2 DEF Saved, Only
      <3> QED
        BY <3>1, <3>2, <3>3, <3>4
    <2>3. CASE BeginAppend
      <3>1. Consumer \in Proc /\ Begin(Consumer) /\ UNCHANGED <<dir, content, stored>>
        BY <2>3 DEF Proc, BeginAppend
      <3> QED
        BY <2>2, <3>1
    <2>4. ASSUME NEW r \in Reader, BeginRead(r)
          PROVE  Covered' /\ \A q \in Proc : pc'[q] # "idle" => Saved(q)'
      <3>1. r \in Proc /\ Begin(r) /\ UNCHANGED <<dir, content, stored>>
        BY <2>4 DEF Proc, BeginRead
      <3> QED
        BY <2>2, <3>1
    <2>5. ASSUME NEW p \in Proc, Step(p)
          PROVE  Covered' /\ \A q \in Proc : pc'[q] # "idle" => Saved(q)'
      <3>1. /\ overlapped' = overlapped /\ pc[p] # "idle"
            /\ \A q \in Proc : q # p => pc'[q] = pc[q]
        BY <2>5, StepLeavesLog
      <3>2. Covered /\ Saved(p)
        BY <3>1 DEF Rec
      <3>3. \A q \in Proc : q # p => pc'[q] = "idle"
        BY <3>1, <3>2 DEF Saved, Only
      <3>4. Covered' /\ (pc'[p] # "idle" => Saved(p)')
        BY <2>5, <3>2, StepSaves
      <3> QED
        BY <3>3, <3>4
    <2>6. CASE Crash
      <3>1. /\ UNCHANGED <<dir, content, stored, overlapped>>
            /\ \A q \in Proc : pc'[q] = "idle"
        BY <2>6 DEF Crash, log
      <3> QED
        BY <3>1 DEF Rec, Covered, Lines
    <2>7. CASE UNCHANGED vars
      BY <2>7 DEF vars, Rec, Covered, Saved, Only, Whole, Lines
    <2> QED
      BY <2>3, <2>4, <2>5, <2>6, <2>7 DEF Next
  <1> QED
    BY <1>1, <1>2, TInvariance, PTL DEF Spec

(* cropToFileHistoryLimit may be cut short anywhere, again and again: as long *)
(* as no two operations overlap, each recent message is in the group's file   *)
(* or in the temporary one.                                                   *)
THEOREM CrashKeepsRecent == Spec => []RecentOnDisk
  <1>1. TypeOK /\ Rec => RecentOnDisk
    <2> SUFFICES ASSUME TypeOK, Rec, ~overlapped,
                        NEW x \in ToSet(LastLines(stored, Limit - 1))
                 PROVE  x \in ToSet(Lines("group")) \/ x \in ToSet(Lines("temp"))
      BY DEF RecentOnDisk
    <2> DEFINE u == LastLines(stored, Recent)
               g == Lines("group")
    <2>1. Recent \in Nat /\ stored \in Seq(Message) /\ g \in Seq(Message) /\ Len(g) \in Nat
      BY LinesType, ConstantsAssumption DEF TypeOK, Recent
    <2>2. /\ u \in Seq(Message) /\ Len(u) = IF Len(stored) > Recent THEN Recent ELSE Len(stored)
          /\ \A i \in 0 .. Len(u) - 1 : u[Len(u) - i] = stored[Len(stored) - i]
      BY <2>1, LastLinesAre
    <2>3. PICK k \in DOMAIN u : x = u[k]
      BY DEF ToSet, Recent
    <2> HIDE DEF u
    <2>4. k \in 1 .. Len(u) /\ Len(u) \in Nat /\ Len(stored) \in Nat
      BY <2>1, <2>2
    <2> DEFINE i == Len(u) - k
    <2>5. /\ i \in 0 .. Len(u) - 1 /\ Len(u) - i = k /\ i \in 0 .. Recent - 1
          /\ i < Len(stored)
      BY <2>1, <2>2, <2>4
    <2> HIDE DEF i
    <2>6. x = stored[Len(stored) - i]
      BY <2>2, <2>3, <2>5
    <2>7. CoveredBy(g, Lines("temp"), stored)
      BY DEF Rec, Covered
    <2>8. CASE Len(g) <= i
      BY <2>5, <2>6, <2>7, <2>8 DEF CoveredBy
    <2>9. CASE i < Len(g)
      <3>1. g[Len(g) - i] = x
        BY <2>5, <2>6, <2>7, <2>9 DEF CoveredBy, Ends
      <3>2. Len(g) - i \in DOMAIN g
        BY <2>1, <2>5, <2>9
      <3> QED
        BY <3>1, <3>2 DEF ToSet
    <2> QED
      BY <2>1, <2>5, <2>8, <2>9
  <1> QED
    BY <1>1, TypeCorrect, RecInvariance, PTL

-----------------------------------------------------------------------------
(* A joining user sees the last messages stored.                            *)

(* s is the end of t.                                                        *)
EndOf(s, t) == Len(s) <= Len(t) /\ Ends(s, t, Len(s))

(* s is the end of t, with the last n lines of it, or all of it.              *)
LastOf(s, t, n) == EndOf(s, t) /\ (n <= Len(s) \/ Len(s) = Len(t))

(* The one thread in an operation: the history is in the files to the line.  *)
Exact(p) ==
    /\ pc[p] # "rename" => EndOf(Lines("group"), stored)
    /\ pc[p] \in {"crop", "read"} => LastOf(Lines("group"), stored, Limit)
    /\ pc[p] \in {"append", "log"} => LastOf(Lines("group"), stored, Limit - 1)
    /\ pc[p] = "open" => EndOf(todo[p], stored) /\ Len(todo[p]) = Kept(p)
    /\ pc[p] = "write" => /\ EndOf(Lines("temp") \o todo[p], stored)
                          /\ Len(Lines("temp") \o todo[p]) = Kept(p)
    /\ pc[p] \in {"remove", "rename"} => /\ EndOf(Lines("temp"), stored)
                                        /\ Len(Lines("temp")) = Kept(p)
    /\ pc[p] = "read" => Len(Lines("group")) <= Limit

Whence ==
    ~overlapped /\ crashes = 0 =>
        /\ \A p \in Proc : pc[p] # "idle" => Exact(p)
        /\ (\A p \in Proc : pc[p] = "idle") => LastOf(Lines("group"), stored, Limit)

(* The last lines of an end are an end.                                      *)
LEMMA LastLinesOfEnd ==
    ASSUME NEW S, NEW s \in Seq(S), NEW t \in Seq(S), NEW n \in Nat, EndOf(s, t), n < Len(s)
    PROVE  EndOf(LastLines(s, n), t) /\ Len(LastLines(s, n)) = n
  <1>1. Len(s) \in Nat /\ Len(t) \in Nat /\ Len(LastLines(s, n)) = n
    BY LastLinesAre
  <1>2. Ends(s, t, n)
    BY <1>1 DEF EndOf, Ends
  <1>3. Ends(LastLines(s, n), t, n)
    BY <1>2, LastLinesEnd
  <1> QED
    BY <1>1, <1>3 DEF EndOf

(* A message appended to an end and to the whole leaves it an end.           *)
LEMMA AppendLast ==
    ASSUME NEW S, NEW s \in Seq(S), NEW t \in Seq(S), NEW m \in S, NEW n \in Int, LastOf(s, t, n)
    PROVE  LastOf(Append(s, m), Append(t, m), n + 1)
  <1>1. /\ Len(s) \in Nat /\ Len(t) \in Nat
        /\ Len(Append(s, m)) = Len(s) + 1 /\ Len(Append(t, m)) = Len(t) + 1
    BY AppendedLines
  <1>2. Ends(Append(s, m), Append(t, m), Len(s) + 1)
    BY <1>1, AppendEnds DEF LastOf, EndOf
  <1> QED
    BY <1>1, <1>2 DEF LastOf, EndOf

(* A file of at most n lines with the last n of t holds just those.          *)
LEMMA LastOfIsLastLines ==
    ASSUME NEW S, NEW s \in Seq(S), NEW t \in Seq(S), NEW n \in Nat, LastOf(s, t, n), Len(s) <= n
    PROVE  s = LastLines(t, n)
  <1> DEFINE u == LastLines(t, n)
  <1>1. /\ u \in Seq(S) /\ Len(u) = IF Len(t) > n THEN n ELSE Len(t)
        /\ \A j \in 0 .. Len(u) - 1 : u[Len(u) - j] = t[Len(t) - j]
    BY LastLinesAre
  <1> HIDE DEF u
  <1>2. Len(s) \in Nat /\ Len(t) \in Nat /\ Len(s) <= Len(t)
    BY DEF LastOf, EndOf
  <1>3. Len(u) = Len(s)
    BY <1>1, <1>2 DEF LastOf
  <1>4. ASSUME NEW i \in 1 .. Len(s) PROVE s[i] = u[i]
    <2>1. /\ Len(s) - i \in 0 .. Len(s) - 1 /\ Len(s) - i < Len(s) /\ Len(s) - i < Len(t)
          /\ Len(s) - (Len(s) - i) = i
      BY <1>2
    <2>2. s[Len(s) - (Len(s) - i)] = t[Len(t) - (Len(s) - i)]
      BY <2>1 DEF LastOf, EndOf, Ends
    <2>3. u[Len(s) - (Len(s) - i)] = t[Len(t) - (Len(s) - i)]
      BY <1>1, <1>3, <2>1
    <2> QED
      BY <2>1, <2>2, <2>3
  <1>5. s = u
    BY <1>1, <1>3, <1>4, SeqEqual
  <1> QED
    BY <1>5 DEF u

(* What was stored by then is what it was.                                   *)
LEMMA BeforeAppend ==
    ASSUME NEW S, NEW t \in Seq(S), NEW m \in S, NEW k \in 0 .. Len(t)
    PROVE  SubSeq(Append(t, m), 1, k) = SubSeq(t, 1, k)
  <1> DEFINE a == Append(t, m)
             x == SubSeq(a, 1, k)
             y == SubSeq(t, 1, k)
  <1>1. a \in Seq(S) /\ Len(a) = Len(t) + 1 /\ Len(t) \in Nat /\ \A i \in 1 .. Len(t) : a[i] = t[i]
    BY AppendedLines
  <1> HIDE DEF a
  <1>2. \A i \in 1 .. k : i \in 1 .. Len(t) /\ i \in 1 .. Len(a) /\ a[i] \in S /\ t[i] \in S
    BY <1>1
  <1>3. /\ x \in Seq(S) /\ Len(x) = IF 1 <= k THEN k - 1 + 1 ELSE 0
        /\ \A i \in 1 .. k - 1 + 1 : x[i] = a[1 + i - 1]
    BY <1>2, SubSeqProperties
  <1>4. /\ y \in Seq(S) /\ Len(y) = IF 1 <= k THEN k - 1 + 1 ELSE 0
        /\ \A i \in 1 .. k - 1 + 1 : y[i] = t[1 + i - 1]
    BY <1>2, SubSeqProperties
  <1> HIDE DEF x, y
  <1>5. Len(x) = k /\ Len(y) = k
    BY <1>3, <1>4
  <1>6. ASSUME NEW i \in 1 .. k PROVE x[i] = y[i]
    <2>1. i \in 1 .. k - 1 + 1 /\ 1 + i - 1 = i /\ a[i] = t[i]
      BY <1>1, <1>2
    <2>2. x[i] = a[i] /\ y[i] = t[i]
      BY <1>3, <1>4, <2>1
    <2> QED
      BY <2>1, <2>2
  <1>7. x = y
    BY <1>3, <1>4, <1>5, <1>6, SeqEqual
  <1> QED
    BY <1>7 DEF x, y, a

(* A read that was right remains so.                                         *)
LEMMA TailStays ==
    ASSUME TypeOK, NEW r \in Reader, TailOfHistory(r), shown'[r] = shown[r], start'[r] = start[r],
           stored' = stored \/ \E m \in Message : stored' = Append(stored, m)
    PROVE  TailOfHistory(r)'
  <1>1. stored \in Seq(Message) /\ start[r] \in Nat /\ Len(stored) \in Nat
    BY DEF TypeOK, Proc
  <1>2. PICK k \in start[r] .. Len(stored) : shown[r] = LastLines(SubSeq(stored, 1, k), Limit)
    BY DEF TailOfHistory
  <1>3. CASE stored' = stored
    BY <1>2, <1>3 DEF TailOfHistory
  <1>4. ASSUME NEW m \in Message, stored' = Append(stored, m) PROVE TailOfHistory(r)'
    <2>1. SubSeq(stored', 1, k) = SubSeq(stored, 1, k) /\ Len(stored') = Len(stored) + 1
      <3>1. k \in 0 .. Len(stored)
        BY <1>1
      <3> QED
        BY <1>1, <1>4, <3>1, BeforeAppend, AppendedLines
    <2>2. k \in start'[r] .. Len(stored')
      BY <1>1, <2>1
    <2>3. shown'[r] = LastLines(SubSeq(stored', 1, k), Limit)
      BY <1>2, <2>1
    <2> QED
      BY <2>2, <2>3 DEF TailOfHistory
  <1> QED
    BY <1>3, <1>4

(* A step of the one operation under way, when the server has not crashed.    *)
LEMMA StepIsExact ==
    ASSUME TInv, crashes = 0, NEW p \in Proc, Saved(p), Exact(p), Step(p)
    PROVE  /\ pc'[p] # "idle" => Exact(p)'
           /\ pc'[p] = "idle" => LastOf(Lines("group"), stored, Limit)'
  <1> DEFINE g == Lines("group")
             m == Lines("temp")
  <1>1. /\ TypeOK /\ Kinds /\ TempHasOwner /\ g \in Seq(Message) /\ m \in Seq(Message)
        /\ stored \in Seq(Message) /\ todo[p] \in Seq(Message) /\ Limit \in Nat
        /\ Len(g) \in Nat /\ Len(m) \in Nat /\ Kept(p) \in Nat /\ Kept(p) <= Limit
        /\ Limit - 1 <= Kept(p) /\ NoFile \notin Inode /\ Only(p)
    <2>1. TypeOK /\ Kinds /\ TempHasOwner /\ Only(p)
      BY DEF TInv, Saved
    <2>2. g \in Seq(Message) /\ m \in Seq(Message)
      BY <2>1, LinesType
    <2> QED
      BY <2>1, <2>2, KeptIsNat, ConstantsAssumption DEF TypeOK
  <1>2. CASE Crop(p)
    <2>1. pc[p] = "crop" /\ UNCHANGED <<dir, content>> /\ stored' = stored
      BY <1>1, <1>2, CropEffect DEF log
    <2>2. Lines("group")' = g /\ LastOf(g, stored, Limit)
      BY <2>1 DEF Lines, Exact
    <2>3. CASE Len(g) > Limit /\ pc'[p] = "open" /\ todo'[p] = LastLines(g, Kept(p))
      <3>1. EndOf(g, stored) /\ Kept(p) < Len(g)
        BY <1>1, <2>2, <2>3 DEF LastOf
      <3>2. EndOf(LastLines(g, Kept(p)), stored) /\ Len(LastLines(g, Kept(p))) = Kept(p)
        <4> HIDE DEF g
        <4> QED
          BY <1>1, <3>1, LastLinesOfEnd
      <3>3. Kept(p)' = Kept(p)
        BY DEF Kept
      <3> QED
        BY <2>1, <2>2, <2>3, <3>1, <3>2, <3>3 DEF Exact
    <2>4. CASE Len(g) <= Limit /\ pc'[p] = AfterCrop(p)
      <3>1. LastOf(g, stored, Limit - 1)
        BY <1>1, <2>2 DEF LastOf
      <3> QED
        BY <2>1, <2>2, <2>4, <3>1, AfterCropFits DEF Exact, LastOf
    <2> QED
      BY <1>1, <1>2, <2>3, <2>4, CropEffect
  <1>3. CASE OpenTemp(p)
    <2>1. /\ pc[p] = "open" /\ pc'[p] = IF todo[p] = <<>> THEN "remove" ELSE "write"
          /\ todo' = todo /\ stored' = stored
          /\ Lines("group")' = g /\ Lines("temp")' = m
      BY <1>1, <1>3, OpenTempEffect DEF log
    <2>2. dir["temp"] = NoFile
      BY <1>1, <2>1 DEF TempHasOwner, Only
    <2>3. m = <<>>
      BY <2>2 DEF Lines
    <2>4. m \o todo[p] = todo[p]
      BY <1>1, <2>3, ConcatEmptySeq
    <2>5. /\ EndOf(g, stored) /\ EndOf(todo[p], stored) /\ Len(todo[p]) = Kept(p)
          /\ Kept(p)' = Kept(p)
      BY <2>1 DEF Exact, Kept
    <2>6. EndOf(Lines("temp") \o todo[p], stored)' /\ (Len(Lines("temp") \o todo[p]) = Kept(p))'
      BY <2>1, <2>4, <2>5
    <2>7. todo[p] = <<>> => EndOf(Lines("temp"), stored)' /\ (Len(Lines("temp")) = Kept(p))'
      BY <2>1, <2>3, <2>5
    <2> QED
      BY <2>1, <2>5, <2>6, <2>7 DEF Exact
  <1>4. CASE WriteTemp(p)
    <2>1. /\ pc[p] = "write" /\ todo[p] # <<>> /\ todo'[p] = Tail(todo[p])
          /\ pc'[p] = IF todo'[p] = <<>> THEN "remove" ELSE "write"
          /\ dir["temp"] = out[p] => /\ Lines("temp")' = Append(m, Head(todo[p]))
                                     /\ Lines("group")' = g
          /\ stored' = stored
      BY <1>4, WriteTempEffect DEF log
    <2>2. /\ dir["temp"] = out[p] /\ EndOf(g, stored) /\ EndOf(m \o todo[p], stored)
          /\ Len(m \o todo[p]) = Kept(p) /\ Kept(p)' = Kept(p)
      BY <2>1 DEF Saved, Exact, Kept
    <2>3. /\ Append(m, Head(todo[p])) \o Tail(todo[p]) = m \o todo[p]
          /\ Append(m, Head(todo[p])) \in Seq(Message)
      <3> HIDE DEF m
      <3>1. /\ Append(m, Head(todo[p])) \o Tail(todo[p]) = m \o todo[p]
            /\ Head(todo[p]) \in Message
        BY <1>1, <2>1, OneLineFurther
      <3> QED
        BY <1>1, <3>1, AppendedLines
    <2>4. (Lines("temp") \o todo[p])' = m \o todo[p]
      BY <2>1, <2>2, <2>3
    <2>5. ASSUME todo'[p] = <<>> PROVE Lines("temp")' = m \o todo[p]
      <3>1. Lines("temp")' \in Seq(Message)
        BY <2>1, <2>2, <2>3
      <3>2. Lines("temp")' \o <<>> = Lines("temp")'
        BY <3>1, ConcatEmptySeq
      <3> QED
        BY <2>4, <2>5, <3>2
    <2> QED
      BY <2>1, <2>2, <2>4, <2>5 DEF Exact
  <1>5. CASE RemoveGroup(p)
    <2>1. /\ pc[p] = "remove" /\ pc'[p] = "rename" /\ stored' = stored /\ Lines("temp")' = m
      BY <1>1, <1>5, RemoveEffect DEF log
    <2>2. EndOf(m, stored) /\ Len(m) = Kept(p) /\ Kept(p)' = Kept(p)
      BY <2>1 DEF Exact, Kept
    <2> QED
      BY <2>1, <2>2 DEF Exact
  <1>6. CASE RenameTemp(p)
    <2>1. /\ pc[p] = "rename" /\ pc'[p] = AfterCrop(p) /\ stored' = stored
          /\ dir["temp"] # NoFile => Lines("group")' = m
      BY <1>1, <1>6, RenameEffect DEF log
    <2>2. Lines("group")' = m /\ EndOf(m, stored) /\ Len(m) = Kept(p)
      BY <2>1 DEF Saved, Exact
    <2>3. CASE p = Consumer
      <3>1. pc'[p] = "append" /\ Len(m) = Limit - 1
        BY <2>1, <2>2, <2>3 DEF AfterCrop, Kept
      <3> QED
        BY <1>1, <2>1, <2>2, <3>1 DEF Exact, LastOf
    <2>4. CASE p # Consumer
      <3>1. pc'[p] = "read" /\ Len(m) = Limit
        BY <2>1, <2>2, <2>4 DEF AfterCrop, Kept
      <3> QED
        BY <1>1, <2>1, <2>2, <3>1 DEF Exact, LastOf
    <2> QED
      BY <2>3, <2>4
  <1>7. CASE OpenGroup(p)
    <2>1. /\ pc[p] = "append" /\ pc'[p] = "log" /\ Lines("group")' = g /\ stored' = stored
      BY <1>1, <1>7, OpenGroupEffect DEF log
    <2> QED
      BY <2>1 DEF Exact
  <1>8. CASE AppendMessage(p)
    <2>1. /\ pc[p] = "log" /\ pc'[p] = "idle" /\ taken \in Message
          /\ dir["group"] = out[p] => Lines("group")' = Append(g, taken)
          /\ stored' = Append(stored, taken)
      BY <1>8, AppendEffect
    <2>2. dir["group"] = out[p] /\ LastOf(g, stored, Limit - 1)
      BY <2>1 DEF Saved, Exact
    <2>3. LastOf(Append(g, taken), Append(stored, taken), Limit)
      <3>1. Limit - 1 \in Int /\ Limit - 1 + 1 = Limit
        BY <1>1
      <3> HIDE DEF g
      <3>2. LastOf(Append(g, taken), Append(stored, taken), Limit - 1 + 1)
        BY <1>1, <2>1, <2>2, <3>1, AppendLast
      <3> QED
        BY <3>1, <3>2
    <2> QED
      BY <2>1, <2>2, <2>3
  <1>9. CASE ReadGroup(p)
    <2>1. pc[p] = "read" /\ pc'[p] = "idle" /\ UNCHANGED <<dir, content>> /\ stored' = stored
      BY <1>9, ReadEffect DEF log
    <2> QED
      BY <2>1 DEF Lines, Exact
  <1> QED
    BY <1>2, <1>3, <1>4, <1>5, <1>6, <1>7, <1>8, <1>9 DEF Step

(* What the readers have been shown is right after a step, too.               *)
LEMMA StepShows ==
    ASSUME TInv, NEW p \in Proc, Exact(p), Step(p), NEW r \in Reader, pc'[r] = "idle",
           reads'[r] > 0, pc[r] = "idle" /\ reads[r] > 0 => TailOfHistory(r)
    PROVE  TailOfHistory(r)'
  <1>1. TypeOK /\ r \in Proc /\ r # Consumer /\ stored \in Seq(Message) /\ Limit \in Nat
    BY ConstantsAssumption DEF TInv, TypeOK, Proc
  <1>2. CASE ReadGroup(p) /\ p = r
    <2>1. pc[r] = "read" /\ shown'[r] = Lines("group") /\ stored' = stored /\ start' = start
      BY <1>2, ReadEffect DEF log
    <2>2. LastOf(Lines("group"), stored, Limit) /\ Len(Lines("group")) <= Limit
      BY <1>2, <2>1 DEF Exact
    <2>3. Lines("group") = LastLines(stored, Limit)
      BY <1>1, <2>2, LinesType, LastOfIsLastLines
    <2>4. SubSeq(stored, 1, Len(stored)) = stored
      BY <1>1, SubSeqFull
    <2>5. Len(stored) \in start[r] .. Len(stored)
      BY <1>1 DEF TInv, TypeOK, Kinds
    <2> QED
      BY <2>1, <2>3, <2>4, <2>5 DEF TailOfHistory
  <1>3. CASE ~(ReadGroup(p) /\ p = r)
    <2>1. /\ pc[r] = "idle" /\ reads'[r] = reads[r] /\ shown'[r] = shown[r] /\ start'[r] = start[r]
          /\ stored' = stored \/ (taken \in Message /\ stored' = Append(stored, taken))
      <3>1. CASE Crop(p)
        BY <1>1, <3>1, CropEffect, AfterCropFits DEF log
      <3>2. CASE OpenTemp(p)
        BY <1>1, <3>2, OpenTempEffect DEF log
      <3>3. CASE WriteTemp(p)
        BY <1>1, <3>3, WriteTempEffect DEF log
      <3>4. CASE RemoveGroup(p)
        BY <1>1, <3>4, RemoveEffect DEF log
      <3>5. CASE RenameTemp(p)
        BY <1>1, <3>5, RenameEffect, AfterCropFits DEF log
      <3>6. CASE OpenGroup(p)
        BY <1>1, <3>6, OpenGroupEffect DEF log
      <3>7. CASE AppendMessage(p)
        BY <1>1, <3>7, AppendEffect
      <3>8. CASE ReadGroup(p)
        BY <1>1, <1>3, <3>8, ReadEffect DEF log
      <3> QED
        BY <3>1, <3>2, <3>3, <3>4, <3>5, <3>6, <3>7, <3>8 DEF Step
    <2> QED
      BY <1>1, <2>1, TailStays
  <1> QED
    BY <1>2, <1>3

(* Without a crash and an overlap, every reader has got the right messages.   *)
LEMMA ReadInvariance == Spec => [](Whence /\ ReadsAreAtomic)
  <1>1. Init => Whence /\ ReadsAreAtomic
    <2> SUFFICES ASSUME Init PROVE Whence /\ ReadsAreAtomic
      OBVIOUS
    <2>1. /\ stored = <<>> /\ Lines("group") = <<>> /\ \A p \in Proc : pc[p] = "idle"
          /\ \A r \in Reader : reads[r] = 0 /\ Len(<<>>) = 0
      BY DEF Init, Lines
    <2>2. LastOf(Lines("group"), stored, Limit)
      BY <2>1 DEF LastOf, EndOf, Ends
    <2> QED
      BY <2>1, <2>2 DEF Whence, ReadsAreAtomic
  <1>2. TInv /\ Rec /\ Whence /\ ReadsAreAtomic /\ [Next]_vars => (Whence /\ ReadsAreAtomic)'
    <2> SUFFICES ASSUME TInv, Rec, Whence, ReadsAreAtomic, [Next]_vars, ~overlapped', crashes' = 0
                 PROVE  /\ \A p \in Proc : pc'[p] # "idle" => Exact(p)'
                        /\ (\A p \in Proc : pc'[p] = "idle") =>
                              LastOf(Lines("group"), stored, Limit)'
                        /\ \A r \in Reader : pc'[r] = "idle" /\ reads'[r] > 0 => TailOfHistory(r)'
      BY DEF Whence, ReadsAreAtomic
    <2>1. TypeOK /\ crashes \in Nat
      BY DEF TInv, TypeOK
    <2> DEFINE Goal == /\ \A p \in Proc : pc'[p] # "idle" => Exact(p)'
                       /\ (\A p \in Proc : pc'[p] = "idle") =>
                              LastOf(Lines("group"), stored, Limit)'
                       /\ \A r \in Reader : pc'[r] = "idle" /\ reads'[r] > 0 => TailOfHistory(r)'
    <2>2. ASSUME NEW p \in Proc, Begin(p),
                 UNCHANGED <<dir, content, stored, shown, reads, crashes>>
          PROVE  Goal
      <3>1. /\ \A q \in Proc : pc'[q] = IF q = p THEN "crop" ELSE pc[q]
            /\ \A q \in Proc : start'[q] = IF q = p THEN Len(stored) ELSE start[q]
            /\ ~overlapped /\ Busy = {} /\ pc[p] = "idle"
        BY <2>1, <2>2, BeginEffect
      <3>2. (\A q \in Proc : pc[q] = "idle") /\ crashes = 0
        BY <2>2, <3>1 DEF Busy
      <3>3. LastOf(Lines("group"), stored, Limit) /\ Lines("group")' = Lines("group")
        BY <2>2, <3>1, <3>2 DEF Whence, Lines
      <3>4. Exact(p)'
        BY <2>2, <3>1, <3>3 DEF Exact, LastOf
      <3>5. ASSUME NEW r \in Reader, pc'[r] = "idle", reads'[r] > 0 PROVE TailOfHistory(r)'
        <4>1. r \in Proc /\ r # p /\ pc[r] = "idle"
          BY <3>1, <3>2, <3>5 DEF Proc
        <4>2. TailOfHistory(r)
          BY <2>2, <3>1, <3>2, <3>5, <4>1 DEF ReadsAreAtomic
        <4> QED
          BY <2>1, <2>2, <3>1, <4>1, <4>2, TailStays
      <3> QED
        BY <3>1, <3>2, <3>4, <3>5
    <2>3. CASE BeginAppend
      <3>1. /\ Consumer \in Proc /\ Begin(Consumer)
            /\ UNCHANGED <<dir, content, stored, shown, reads, crashes>>
        BY <2>3 DEF Proc, BeginAppend
      <3> QED
        BY <2>2, <3>1
    <2>4. ASSUME NEW r \in Reader, BeginRead(r) PROVE Goal
      <3>1. /\ r \in Proc /\ Begin(r)
            /\ UNCHANGED <<dir, content, stored, shown, reads, crashes>>
        BY <2>4 DEF Proc, BeginRead
      <3> HIDE DEF Goal
      <3> QED
        BY <2>2, <3>1
    <2>5. ASSUME NEW p \in Proc, Step(p) PROVE Goal
      <3>1. /\ ~overlapped /\ crashes = 0 /\ pc[p] # "idle"
            /\ \A q \in Proc : q # p => pc'[q] = pc[q]
        BY <2>5, StepLeavesLog
      <3>2. Saved(p) /\ Exact(p)
        BY <3>1 DEF Rec, Whence
      <3>3. \A q \in Proc : q # p => pc'[q] = "idle"
        BY <3>1, <3>2 DEF Saved, Only
      <3>4. /\ pc'[p] # "idle" => Exact(p)'
            /\ pc'[p] = "idle" => LastOf(Lines("group"), stored, Limit)'
        BY <2>5, <3>1, <3>2, StepIsExact
      <3>5. ASSUME NEW r \in Reader, pc'[r] = "idle", reads'[r] > 0 PROVE TailOfHistory(r)'
        <4>1. pc[r] = "idle" /\ reads[r] > 0 => TailOfHistory(r)
          BY <3>1 DEF ReadsAreAtomic
        <4> QED
          BY <2>5, <3>2, <3>5, <4>1, StepShows
      <3> QED
        BY <3>3, <3>4, <3>5
    <2>6. ~Crash
      BY <2>1 DEF Crash
    <2>7. CASE UNCHANGED vars
      <3>1. Whence' /\ ReadsAreAtomic'
        BY <2>7 DEF vars, Whence, ReadsAreAtomic, Exact, Lines, TailOfHistory, Kept
      <3> QED
        BY <3>1 DEF Whence, ReadsAreAtomic
    <2> HIDE DEF Goal
    <2>8. Goal
      BY <2>3, <2>4, <2>5, <2>6, <2>7 DEF Next, Goal
    <2> QED
      BY <2>8 DEF Goal
  <1> QED
    BY <1>1, <1>2, TInvariance, RecInvariance, PTL DEF Spec

(* README: a user who joins is shown the last messages stored, exactly those, *)
(* as long as the server has not crashed and no two operations have overlapped. *)
THEOREM JoinersSeeTheHistory == Spec => []ReadsAreAtomic
  BY ReadInvariance, PTL
=============================================================================
