------------------------------ MODULE History ------------------------------
(***************************************************************************)
(* The message history of one group: a file that FileSystemManager crops   *)
(* to the last Limit lines, through a temporary file, before every append  *)
(* and before every read.                                                  *)
(*                                                                         *)
(* The group's consumer thread appends; the listener threads of the front  *)
(* ends read, for users who join.  No lock orders them.  A file is an      *)
(* inode with its lines; "group" and "temp" are directory entries, and an  *)
(* open stream keeps its inode when the entry is removed or renamed.       *)
(***************************************************************************)
EXTENDS Naturals, Sequences, SequencesExt, FiniteSets

CONSTANTS
    Reader,       \* listener threads that read the history for joining users
    Consumer,     \* the consumer thread of the group
    Limit,        \* getMaxNumberOfMessagesInHistory()
    MaxMessages,  \* bound: messages the consumer stores
    MaxReads,     \* bound: reads of each reader, until a crash
    MaxCrashes,   \* bound: crashes of the server, each followed by a restart
    NoFile

Proc == Reader \cup {Consumer}

(* Inodes are reused: no more than these are ever named or open.             *)
Inode == 1 .. Cardinality(Proc) + 3

ASSUME ConstantsAssumption ==
    /\ IsFiniteSet(Reader)
    /\ Consumer \notin Reader
    /\ Limit \in Nat \ {0}
    /\ MaxMessages \in Nat
    /\ MaxReads \in Nat
    /\ MaxCrashes \in Nat
    /\ NoFile \notin Inode

VARIABLES
    dir,      \* the inode of the group's file and of its _temp file
    content,  \* the lines of each inode
    pc,       \* program counter of each thread
    out,      \* the inode a thread's output stream writes to
    todo,     \* lines that cropToFileHistoryLimit has still to write
    taken,    \* messages the consumer has taken from the queue, numbered from 1
    shown,    \* the lines each reader got last
    reads,    \* reads each reader has finished since the server started
    crashes,  \* crashes so far
    stored,   \* history variable: the messages appended, in order
    start,    \* history variable: Len(stored) when a thread's operation began
    alone,    \* history variable: no other operation overlaps the thread's
    overlapped \* history variable: two operations have overlapped so far

vars == <<dir, content, pc, out, todo, taken, shown, reads, crashes, stored, start, alone,
          overlapped>>

log == <<stored, start, alone, overlapped>>

-----------------------------------------------------------------------------
Steps == {"idle", "crop", "open", "write", "remove", "rename", "append", "log", "read"}

Message == 1 .. MaxMessages

TypeOK ==
    /\ dir \in [{"group", "temp"} -> Inode \cup {NoFile}]
    /\ content \in [Inode -> Seq(Message)]
    /\ pc \in [Proc -> Steps]
    /\ out \in [Proc -> Inode \cup {NoFile}]
    /\ todo \in [Proc -> Seq(Message)]
    /\ taken \in 0 .. MaxMessages
    /\ shown \in [Reader -> Seq(Message)]
    /\ reads \in [Reader -> 0 .. MaxReads]
    /\ crashes \in 0 .. MaxCrashes
    /\ stored \in Seq(Message)
    /\ start \in [Proc -> 0 .. MaxMessages]
    /\ alone \in [Proc -> BOOLEAN]
    /\ overlapped \in BOOLEAN

Init ==
    /\ dir = [n \in {"group", "temp"} |-> NoFile]
    /\ content = [i \in Inode |-> <<>>]
    /\ pc = [p \in Proc |-> "idle"]
    /\ out = [p \in Proc |-> NoFile]
    /\ todo = [p \in Proc |-> <<>>]
    /\ taken = 0
    /\ shown = [r \in Reader |-> <<>>]
    /\ reads = [r \in Reader |-> 0]
    /\ crashes = 0
    /\ stored = <<>>
    /\ start = [p \in Proc |-> 0]
    /\ alone = [p \in Proc |-> TRUE]
    /\ overlapped = FALSE

(* The last n lines of s, or all of it.                                      *)
LastLines(s, n) == IF Len(s) > n THEN SubSeq(s, Len(s) - n + 1, Len(s)) ELSE s

Lines(name) == IF dir[name] = NoFile THEN <<>> ELSE content[dir[name]]

Busy == {p \in Proc : pc[p] # "idle"}

Goto(p, l) == pc' = [pc EXCEPT ![p] = l]

(* p opens a file for appending: the entry's inode, or a new empty one.      *)
OpenAppend(p, name) ==
    LET new == CHOOSE i \in Inode :
                  i \notin {dir["group"], dir["temp"]} \cup {out[q] : q \in Proc}
    IN  IF dir[name] = NoFile
        THEN /\ dir' = [dir EXCEPT ![name] = new]
             /\ content' = [content EXCEPT ![new] = <<>>]
             /\ out' = [out EXCEPT ![p] = new]
        ELSE /\ out' = [out EXCEPT ![p] = dir[name]]
             /\ UNCHANGED <<dir, content>>

-----------------------------------------------------------------------------
(* appendGroupMessageToHistory and readGroupHistoryMessages begin.  (Bound:  *)
(* crashes and overlaps do not occur in one behaviour, as nothing is claimed *)
(* of the two together: see Crash.)                                          *)
Begin(p) ==
    /\ pc[p] = "idle"
    /\ crashes = 0 \/ Busy = {}
    /\ start' = [start EXCEPT ![p] = Len(stored)]
    /\ alone' = [q \in Proc |-> IF q = p THEN Busy = {} ELSE alone[q] /\ q \notin Busy]
    /\ overlapped' = (overlapped \/ Busy # {})
    /\ Goto(p, "crop")

BeginAppend ==
    /\ taken < MaxMessages
    /\ Begin(Consumer)
    /\ taken' = taken + 1
    /\ UNCHANGED <<dir, content, out, todo, shown, reads, crashes, stored>>

BeginRead(r) ==
    /\ reads[r] < MaxReads
    /\ Begin(r)
    /\ UNCHANGED <<dir, content, out, todo, taken, shown, reads, crashes, stored>>

AfterCrop(p) == IF p = Consumer THEN "append" ELSE "read"

(* cropToFileHistoryLimit: the lines to keep, one fewer before an append.    *)
BugKept(p) == IF p = Consumer THEN Limit - 2 ELSE Limit

BugKeepAll(p) == Limit + 1

Kept(p) == IF p = Consumer THEN Limit - 1 ELSE Limit

Crop(p) ==
    /\ pc[p] = "crop"
    /\ IF Len(Lines("group")) > Limit
       THEN /\ todo' = [todo EXCEPT ![p] = LastLines(Lines("group"), Kept(p))]
            /\ Goto(p, "open")
       ELSE /\ Goto(p, AfterCrop(p))
            /\ UNCHANGED todo
    /\ UNCHANGED <<dir, content, out, taken, shown, reads, crashes, log>>

OpenTemp(p) ==
    /\ pc[p] = "open"
    /\ OpenAppend(p, "temp")
    /\ Goto(p, IF todo[p] = <<>> THEN "remove" ELSE "write")
    /\ UNCHANGED <<todo, taken, shown, reads, crashes, log>>

(* One line, flushed by endl.                                                *)
WriteTemp(p) ==
    /\ pc[p] = "write"
    /\ content' = [content EXCEPT ![out[p]] = Append(@, Head(todo[p]))]
    /\ todo' = [todo EXCEPT ![p] = Tail(@)]
    /\ Goto(p, IF Len(todo[p]) = 1 THEN "remove" ELSE "write")
    /\ UNCHANGED <<dir, out, taken, shown, reads, crashes, log>>

RemoveGroup(p) ==
    /\ pc[p] = "remove"
    /\ dir' = [dir EXCEPT !["group"] = NoFile]
    /\ Goto(p, "rename")
    /\ UNCHANGED <<content, out, todo, taken, shown, reads, crashes, log>>

BugRenameTemp(p) ==
    /\ pc[p] = "rename"
    /\ dir' = [dir EXCEPT !["group"] = dir["temp"]]
    /\ out' = [out EXCEPT ![p] = NoFile]
    /\ Goto(p, AfterCrop(p))
    /\ UNCHANGED <<content, todo, taken, shown, reads, crashes, log>>

(* rename fails when another thread has already renamed the temporary file.  *)
RenameTemp(p) ==
    /\ pc[p] = "rename"
    /\ dir' = IF dir["temp"] = NoFile THEN dir
              ELSE [dir EXCEPT !["group"] = dir["temp"], !["temp"] = NoFile]
    /\ out' = [out EXCEPT ![p] = NoFile]
    /\ Goto(p, AfterCrop(p))
    /\ UNCHANGED <<content, todo, taken, shown, reads, crashes, log>>

OpenGroup(p) ==
    /\ pc[p] = "append"
    /\ OpenAppend(p, "group")
    /\ Goto(p, "log")
    /\ UNCHANGED <<todo, taken, shown, reads, crashes, log>>

AppendMessage(p) ==
    /\ pc[p] = "log"
    /\ content' = [content EXCEPT ![out[p]] = Append(@, taken)]
    /\ out' = [out EXCEPT ![p] = NoFile]
    /\ stored' = Append(stored, taken)
    /\ Goto(p, "idle")
    /\ UNCHANGED <<dir, todo, taken, shown, reads, crashes, start, alone, overlapped>>

(* The reader gets every line of the file, or none if there is no file.      *)
ReadGroup(p) ==
    /\ pc[p] = "read"
    /\ shown' = [shown EXCEPT ![p] = Lines("group")]
    /\ reads' = [reads EXCEPT ![p] = @ + 1]
    /\ Goto(p, "idle")
    /\ UNCHANGED <<dir, content, out, todo, taken, crashes, log>>

(* The server process ends and is started again; the files stay.             *)
Crash ==
    /\ crashes < MaxCrashes
    /\ ~overlapped
    /\ crashes' = crashes + 1
    /\ pc' = [p \in Proc |-> "idle"]
    /\ out' = [p \in Proc |-> NoFile]
    /\ todo' = [p \in Proc |-> <<>>]
    /\ shown' = [r \in Reader |-> <<>>]
    /\ reads' = [r \in Reader |-> 0]
    /\ UNCHANGED <<dir, content, taken, log>>

Step(p) ==
    \/ Crop(p)
    \/ OpenTemp(p)
    \/ WriteTemp(p)
    \/ RemoveGroup(p)
    \/ RenameTemp(p)
    \/ OpenGroup(p)
    \/ AppendMessage(p)
    \/ ReadGroup(p)

Next ==
    \/ BeginAppend
    \/ \E r \in Reader : BeginRead(r)
    \/ \E p \in Proc : Step(p)
    \/ Crash

Spec == Init /\ [][Next]_vars

-----------------------------------------------------------------------------
(* Properties.                                                               *)

(* What a reader got is what the history held at some moment of its read: the *)
(* last Limit of the messages stored by then.                                 *)
TailOfHistory(r) == \E k \in start[r] .. Len(stored) :
              shown[r] = LastLines(SubSeq(stored, 1, k), Limit)

(* README: a user who joins sees the last messages sent, as long as no two    *)
(* operations on the file have overlapped and the server has not crashed.     *)
ReadsAreAtomic ==
    \A r \in Reader :
        ~overlapped /\ crashes = 0 /\ pc[r] = "idle" /\ reads[r] > 0 => TailOfHistory(r)

(* The same without the first condition, as the README says it.               *)
ReadsAlwaysAtomic ==
    \A r \in Reader : crashes = 0 /\ pc[r] = "idle" /\ reads[r] > 0 => TailOfHistory(r)

(* A temporary file is never left behind, whatever the threads do: some       *)
(* thread is about to rename it.  (As long as the server has not crashed.)    *)
TempHasOwner ==
    crashes = 0 /\ dir["temp"] # NoFile => \E p \in Proc : pc[p] \in {"write", "remove", "rename"}

(* Whatever races have done to the file before, a read that overlaps no other *)
(* operation shows no more than Limit lines.  (Without a crash.)              *)
LoneReadIsCropped ==
    \A r \in Reader : crashes = 0 /\ pc[r] = "idle" /\ alone[r] => Len(shown[r]) <= Limit

(* A crash at any point of a crop destroys none of the recent messages: each  *)
(* is still in the group's file or in the temporary one.  (Operations that    *)
(* overlap may destroy them.)                                                 *)
RecentOnDisk ==
    ~overlapped => ToSet(LastLines(stored, Limit - 1)) \subseteq
        ToSet(Lines("group")) \cup ToSet(Lines("temp"))
=============================================================================
