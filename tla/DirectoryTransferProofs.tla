------------------------ MODULE DirectoryTransferProofs ------------------------
(***************************************************************************)
(* DirectoryTransfer for any tree, sizes, window and bounds: the receiver  *)
(* unpacks nothing but an archive the sender has finished, and when both   *)
(* ends succeed every file is as it was archived.                          *)
(***************************************************************************)
EXTENDS DirectoryTransfer, SequenceTheorems, FiniteSetTheorems, TLAPS

\* The archive as the goroutine has written it: what the sender has read, and
\* what waits in the pipe.
Written == IF pipe = <<>> THEN sHash ELSE Append(sHash, pipe[1])

\* Where the contents of the file with header i end.
EndOf(s, i) == i + s[i].size

\* An archive, finished or not: it begins with a header, each entry has one, and
\* only files have contents; in a tree nobody edits they are the whole file.
Archive(s) ==
  /\ WellFormed(s)
  /\ s # <<>> => IsHeader(s[1])
  /\ \A i, k \in Headers(s) : s[i].entry = s[k].entry => i = k
  /\ \A i \in Headers(s) : kind[s[i].entry] # "file" => s[i].size = 0
  /\ edits = 0 =>
       \A i \in Headers(s) : kind[s[i].entry] = "file" => s[i].size = size[s[i].entry]

-----------------------------------------------------------------------------
(* The archiving goroutine.                                                *)

Walking == {"visit", "open", "copy"}
Inside == {"open", "copy"}

\* Of the entries listed, those before aAt are in the archive.
Walked(s) ==
  /\ \A i \in Headers(s) : s[i].entry <= aAt /\ (aPc = "visit" => s[i].entry < aAt)
  /\ aPc \in Walking => ~archiveErr
  /\ ~archiveErr =>
       \A e \in {1} \cup aList : e < aAt \/ (e = aAt /\ aPc \in Inside) => Holds(s, e)
  /\ aPc \in Inside => aAt \in Entries /\ s # <<>>
  /\ aPc = "visit" /\ s = <<>> => aAt = 1
  /\ s # <<>> /\ edits = 0 => aList = Entries
  /\ aPc \in {"close", "done"} /\ ~archiveErr => aAt \notin Entries

\* No header's contents are open but those of the last, which lacks aNeed bytes.
Pending(s) ==
  \A i \in Headers(s) :
    \/ EndOf(s, i) <= Len(s) /\ (aNeed > 0 => EndOf(s, i) < Len(s))
    \/ EndOf(s, i) = Len(s) + aNeed /\ (aPc \in Inside => s[i].entry = aAt)

\* The goroutine runs from SendStart until the sender returns, and ends the pipe
\* last of all.
Archiving ==
  /\ aPc = "off" <=> sPc \in Finished \cup {"start"}
  /\ aPc = "off" => pipe = <<>>
  /\ sPc = "start" =>
       /\ aAt = 1 /\ aList = {} /\ aNeed = 0 /\ ~archiveErr /\ pipeEnd = "open" /\ sHash = <<>>
  /\ aPc # "off" =>
       /\ Archive(Written) /\ Walked(Written) /\ Pending(Written)
       /\ pipeEnd = "open" <=> aPc # "done"
       /\ aPc = "done" => pipe = <<>> /\ (pipeEnd = "eof" <=> ~archiveErr)
  /\ sPc = "send" => sHash # <<>> /\ hand = <<sHash[Len(sHash)]>>

-----------------------------------------------------------------------------
(* What is sent, stored and unpacked.                                      *)

\* An archive that is finished, with all that was listed.
Whole ==
  /\ ~archiveErr /\ pipe = <<>> /\ pipeEnd = "eof"
  /\ Archive(sHash) /\ \A e \in {1} \cup aList : Holds(sHash, e)
  /\ edits = 0 => aList = Entries

\* The sender's states once the checksum is sent, until the next session.
AfterSum == {"verdict", "ok", "failed"}

\* Chunks carry what the sender has hashed; the checksum is of all of it, and last.
Messages ==
  \A k \in 1 .. Len(toR) :
    /\ toR[k].type = "file_chunk" =>
         toR[k].index < Len(sHash) /\ toR[k].chunk = <<sHash[toR[k].index + 1]>>
    /\ toR[k].type = "file_checksum" =>
         toR[k].checksum = sHash /\ k = Len(toR) /\ sPc \in AfterSum

\* From its announcement to the receiver's unpacking the archive is whole.
Claimed ==
  \/ sPc \in {"complete", "checksum", "verdict", "ok"}
  \/ \E k \in 1 .. Len(toR) : toR[k].type = "file_checksum"
  \/ rPc \in {"send_sum", "unpack"}
  \/ toS # <<>>

Announced == Claimed => Whole

\* The temp file is the beginning of what the sender has hashed.
Begun ==
  Len(rTmp) <= Len(sHash) /\ \A i \in 1 .. Len(rTmp) : rTmp[i] = sHash[i]

Verified ==
  rPc \in {"send_sum", "unpack"} => rTmp = sHash /\ toR = <<>> /\ sPc \in AfterSum

\* Unpacking starts at the first entry, and happens once in a session.
Fresh ==
  /\ rPc \in {"recv", "sum", "send_sum"} => xAt = 1 /\ xNeed = 0
  /\ rPc = "wait" => (xAt = 1 /\ xNeed = 0) \/ (toR = <<>> /\ sPc \in AfterSum)

\* What is unpacked are the entries before a, the last with n bytes to come, to
\* the files o.
UnpackedTo(a, n, o) ==
  /\ a >= 1 /\ a <= Len(sHash) + 1 /\ (a = 1 => n = 0)
  /\ a > 1 => \E i \in Headers(sHash) : i < a /\ EndOf(sHash, i) = a - 1 + n
  /\ \A i \in Headers(sHash) : i < a =>
       /\ EndOf(sHash, i) < a \/ EndOf(sHash, i) = a - 1 + n
       /\ kind[sHash[i].entry] = "file" =>
            o[sHash[i].entry] = IF EndOf(sHash, i) < a THEN sHash[i].size ELSE a - 1 - i

Unpacking == rPc = "unpack" => UnpackedTo(xAt, xNeed, out)

Delivered ==
  \A i \in Headers(sHash) :
    kind[sHash[i].entry] = "file" => out[sHash[i].entry] = sHash[i].size

Reason ==
  \/ faults > 0
  \/ root # "plain" \/ top
  \/ Cut(sHash)
  \/ xAt <= Len(rTmp) /\ Unwritable(rTmp[xAt].entry)

\* What the sender's success says of the receiver.
Acknowledged ==
  toS # <<>> \/ sPc = "ok" =>
    /\ rTmp = sHash /\ toR = <<>> /\ sPc \in AfterSum
    /\ rPc \in {"unpack", "wait", "ok", "failed"}
    /\ rPc \in {"wait", "ok"} => Delivered
    /\ rPc = "failed" => Reason

\* In a tree nobody edits no file is missing.
Untouched == edits = 0 => \A e \in Entries : size[e] # Gone

DirInv ==
  /\ TypeOK /\ Untouched /\ Archiving /\ Messages /\ Announced
  /\ Begun /\ Verified /\ Fresh /\ Unpacking /\ Acknowledged


-----------------------------------------------------------------------------
(* Sequences, trees and items.                                             *)

\* A prefix of a queue agrees with it.
LEMMA PrefixFacts ==
  ASSUME NEW S, NEW q \in Seq(S), NEW p \in Prefixes(q)
  PROVE  /\ p \in Seq(S) /\ Len(p) \in Nat /\ Len(q) \in Nat /\ Len(p) <= Len(q)
         /\ (q = <<>> => p = <<>>)
         /\ \A i \in 1 .. Len(p) : p[i] = q[i]
<1>1. PICK n \in 0 .. Len(q) : p = SubSeq(q, 1, n)
  BY DEF Prefixes
<1>2. p \in Seq(S) /\ Len(p) = n /\ \A i \in 1 .. n : p[i] = q[i]
  BY <1>1, SubSeqProperties
<1>3. q = <<>> => p = <<>>
  BY <1>2, EmptySeq, LenProperties
<1> QED
  BY <1>2, <1>3, LenProperties

\* The head, the tail and the elements of a queue.
LEMMA QueueFacts ==
  ASSUME NEW S, NEW q \in Seq(S)
  PROVE  /\ Len(q) \in Nat /\ (q = <<>> <=> Len(q) = 0)
         /\ \A i \in 1 .. Len(q) : q[i] \in S
         /\ q # <<>> => /\ Head(q) \in S /\ Head(q) = q[1] /\ Tail(q) \in Seq(S)
                        /\ Len(q) >= 1 /\ Len(Tail(q)) = Len(q) - 1
                        /\ \A i \in 1 .. Len(Tail(q)) : Tail(q)[i] = q[i + 1]
  BY HeadTailProperties, EmptySeq, LenProperties, ElementOfSeq

\* What is appended comes last and leaves the rest.
LEMMA AppendFacts ==
  ASSUME NEW S, NEW q \in Seq(S), NEW m \in S
  PROVE  /\ Append(q, m) \in Seq(S) /\ Append(q, m) # <<>>
         /\ Len(q) \in Nat /\ Len(Append(q, m)) = Len(q) + 1
         /\ \A i \in 1 .. Len(q) : Append(q, m)[i] = q[i]
         /\ Append(q, m)[Len(q) + 1] = m
         /\ q \o <<m>> = Append(q, m)
  BY AppendProperties, LenProperties, AppendIsConcat

\* A sequence of at most one item is empty or holds the one.
LEMMA SingleFacts ==
  ASSUME NEW S, NEW q \in Seq(S), Len(q) <= 1, q # <<>>
  PROVE  q[1] \in S /\ q = <<q[1]>>
<1>0. Len(q) \in Nat /\ Len(q) # 0 /\ \A i \in 1 .. Len(q) : q[i] \in S
  BY QueueFacts
<1>1. Len(q) = 1 /\ q[1] \in S
  <2> \A n \in Nat : n # 0 /\ n <= 1 => n = 1
    OBVIOUS
  <2>1. Len(q) = 1
    BY <1>0, Zenon
  <2> QED
    BY <1>0, <2>1
<1>2. /\ <<q[1]>> \in Seq(S) /\ Len(<<q[1]>>) = 1 /\ <<q[1]>>[1] = q[1]
  BY <1>1
<1>3. \A i \in 1 .. Len(q) : q[i] = <<q[1]>>[i]
  BY <1>1, <1>2
<1> QED
  BY <1>1, <1>2, <1>3, SeqEqual

\* The entries are numbered from 1.
LEMMA EntryFacts ==
  /\ Entries \subseteq Nat \ {0} /\ 1 \in Entries
  /\ \A a \in Nat \ {0} : a \notin Entries => \A e \in Entries : e < a
<1>1. Cardinality(Entries) \in Nat
  BY EntriesAssumption, FS_CardinalityType
<1> QED
  BY <1>1, EntriesAssumption

\* Headers and bytes are told apart, and name their entries.
LEMMA ItemFacts ==
  /\ \A e \in Entries : \A n \in Nat :
       Header(e, n) \in Items /\ IsHeader(Header(e, n))
         /\ Header(e, n).entry = e /\ Header(e, n).size = n
  /\ \A e \in Entries : Byte(e) \in Items /\ ~IsHeader(Byte(e)) /\ Byte(e).entry = e
  /\ \A x \in Items : x.entry \in Entries
  /\ \A x \in Items : IsHeader(x) => x.size \in Nat
<1>1. \A e \in Entries : \A n \in Nat :
        Header(e, n) \in Items /\ IsHeader(Header(e, n))
          /\ Header(e, n).entry = e /\ Header(e, n).size = n
  BY DEF Header, Items, IsHeader
<1>2. \A e \in Entries : Byte(e) \in Items /\ ~IsHeader(Byte(e)) /\ Byte(e).entry = e
  BY DEF Byte, Items, IsHeader
<1>3. \A x \in Items : x.entry \in Entries
  BY DEF Items
<1>4. ASSUME NEW x \in Items, IsHeader(x)
      PROVE  x.size \in Nat
  <2>1. x \notin [entry : Entries]
    BY <1>4 DEF IsHeader
  <2> QED
    BY <2>1 DEF Items
<1> QED
  BY <1>1, <1>2, <1>3, <1>4

\* The headers of a sequence of items.
LEMMA HeaderFacts ==
  ASSUME NEW s \in Seq(Items)
  PROVE  \A i \in Headers(s) :
           /\ i \in 1 .. Len(s) /\ i \in Nat /\ s[i] \in Items /\ IsHeader(s[i])
           /\ s[i].entry \in Entries /\ s[i].size \in Nat /\ EndOf(s, i) \in Nat
           /\ EndOf(s, i) = i + s[i].size
<1> SUFFICES ASSUME NEW i \in Headers(s)
             PROVE  /\ i \in 1 .. Len(s) /\ i \in Nat /\ s[i] \in Items /\ IsHeader(s[i])
                    /\ s[i].entry \in Entries /\ s[i].size \in Nat /\ EndOf(s, i) \in Nat
                    /\ EndOf(s, i) = i + s[i].size
  OBVIOUS
<1>1. i \in 1 .. Len(s) /\ IsHeader(s[i]) /\ Len(s) \in Nat
  BY QueueFacts DEF Headers
<1>2. s[i] \in Items
  BY <1>1, QueueFacts
<1> QED
  BY <1>1, <1>2, ItemFacts DEF EndOf

\* An appended item is a header or not; the others stay as they were.
LEMMA AppendHeaders ==
  ASSUME NEW s \in Seq(Items), NEW x \in Items
  PROVE  /\ Headers(Append(s, x)) =
              IF IsHeader(x) THEN Headers(s) \cup {Len(s) + 1} ELSE Headers(s)
         /\ \A i \in Headers(s) :
              Append(s, x)[i] = s[i] /\ EndOf(Append(s, x), i) = EndOf(s, i)
         /\ \A e : Holds(s, e) => Holds(Append(s, x), e)
<1> DEFINE t == Append(s, x)
<1>1. /\ t \in Seq(Items) /\ Len(s) \in Nat /\ Len(t) = Len(s) + 1
      /\ \A i \in 1 .. Len(s) : t[i] = s[i]
      /\ t[Len(s) + 1] = x
  BY AppendFacts
<1> HIDE DEF t
<1>2. Headers(t) = IF IsHeader(x) THEN Headers(s) \cup {Len(s) + 1} ELSE Headers(s)
  <2>1. ASSUME NEW i
        PROVE  i \in Headers(t) <=> i \in Headers(s) \/ (IsHeader(x) /\ i = Len(s) + 1)
    <3>1. CASE i \in 1 .. Len(s)
      BY <1>1, <3>1 DEF Headers
    <3>2. CASE i = Len(s) + 1
      BY <1>1, <3>2 DEF Headers
    <3>3. CASE i \notin 1 .. Len(t)
      BY <1>1, <3>3 DEF Headers
    <3> QED
      BY <1>1, <3>1, <3>2, <3>3
  <2> QED
    BY <2>1
<1>3. \A i \in Headers(s) : t[i] = s[i] /\ EndOf(t, i) = EndOf(s, i)
  BY <1>1 DEF Headers, EndOf
<1>4. \A e : Holds(s, e) => Holds(t, e)
  <2> SUFFICES ASSUME NEW e, NEW i \in Headers(s), s[i].entry = e
               PROVE  Holds(t, e)
    BY DEF Holds
  <2> i \in Headers(t) /\ t[i].entry = e
    BY <1>2, <1>3
  <2> QED
    BY DEF Holds
<1> QED
  BY <1>2, <1>3, <1>4 DEF t

-----------------------------------------------------------------------------
(* The archiving goroutine keeps the archive in shape.                     *)

\* What the goroutine has written is a sequence of items.
LEMMA WrittenFacts ==
  ASSUME TypeOK
  PROVE  /\ sHash \in Seq(Items) /\ Written \in Seq(Items)
         /\ pipe = <<>> => Written = sHash
         /\ pipe # <<>> => sHash \o pipe = Written
<1>1. pipe \in Seq(Items) /\ Len(pipe) <= 1 /\ sHash \in Seq(Items)
  BY DEF TypeOK
<1>2. CASE pipe = <<>>
  BY <1>1, <1>2 DEF Written
<1>3. CASE pipe # <<>>
  <2>1. pipe[1] \in Items /\ pipe = <<pipe[1]>>
    BY <1>1, <1>3, SingleFacts
  <2>2. Append(sHash, pipe[1]) \in Seq(Items) /\ sHash \o <<pipe[1]>> = Append(sHash, pipe[1])
    BY <1>1, <2>1, AppendFacts
  <2> QED
    BY <1>1, <1>3, <2>1, <2>2 DEF Written
<1> QED
  BY <1>2, <1>3

\* An item offered to the pipe is appended to what was written.
LEMMA WriteFacts ==
  ASSUME TypeOK, NEW x \in Items, Write(x), sHash' = sHash
  PROVE  /\ Written = sHash /\ Written' = Append(sHash, x) /\ pipe = <<>> /\ pipe' # <<>>
         /\ pipe' \in Seq(Items) /\ Len(pipe') = 1
<1>1. pipe = <<>> /\ pipe' = <<x>>
  BY DEF Write
<1>2. <<x>> # <<>> /\ <<x>>[1] = x /\ <<x>> \in Seq(Items) /\ Len(<<x>>) = 1
  OBVIOUS
<1> QED
  BY <1>1, <1>2 DEF Written

\* The tree's entries have a kind, and a size unless they are gone.
LEMMA TreeFacts ==
  ASSUME TypeOK
  PROVE  /\ \A e \in Entries : kind[e] \in {"dir", "file", "link", "fifo"}
         /\ kind[1] = "dir" /\ aAt \in Nat \ {0} /\ aList \subseteq Entries /\ aNeed \in Nat
         /\ \A e \in Entries : size[e] \in Nat \/ size[e] = Gone
         /\ \A e \in Entries : Present(e) => LstatSize(e) \in Nat
<1>1. kind \in Kinds /\ size \in [Entries -> Sizes \cup {Gone}] /\ aAt \in Nat \ {0}
      /\ aList \subseteq Entries /\ aNeed \in Nat
  BY DEF TypeOK
<1>2. kind \in [Entries -> {"dir", "file", "link", "fifo"}] /\ kind[1] = "dir"
  BY <1>1, KindsAssumption, RootAssumption
<1>3. \A e \in Entries : size[e] \in Nat \/ size[e] = Gone
  BY <1>1, SizesAssumption
<1> QED
  BY <1>1, <1>2, <1>3 DEF Present, LstatSize

\* A step that leaves the tree keeps an archive one.
LEMMA ArchiveSame ==
  ASSUME NEW s, Archive(s), kind' = kind, size' = size, edits' = edits
  PROVE  Archive(s)'
  BY DEF Archive

\* The header of the next entry extends the archive: what was promised before is
\* complete, and this entry has no header yet.
LEMMA HeaderArchived ==
  ASSUME TypeOK, NEW s \in Seq(Items), Archive(s), Walked(s), Pending(s),
         CanVisit, Present(aAt), aNeed = 0,
         NEW t, t = Append(s, Header(aAt, LstatSize(aAt)))
  PROVE  Archive(t)
<1> DEFINE n == LstatSize(aAt)
           x == Header(aAt, n)
           l == Len(s) + 1
<1>1. aAt \in Entries /\ aPc = "visit"
  BY TreeFacts, EntryFacts DEF CanVisit
<1>2. n \in Nat
  BY <1>1, TreeFacts
<1>3. x \in Items /\ IsHeader(x) /\ x.entry = aAt /\ x.size = n
  BY <1>1, <1>2, ItemFacts
<1> HIDE DEF n, x
<1>4. /\ t \in Seq(Items) /\ Len(s) \in Nat /\ Len(t) = l /\ l \in Nat
      /\ \A i \in 1 .. Len(s) : t[i] = s[i]
      /\ t[l] = x
  BY <1>3, AppendFacts DEF n, x
<1>a. /\ \A j \in 1 .. l : j = l \/ j \in 1 .. Len(s)
      /\ \A i \in 1 .. Len(s) : i # l
      /\ \A i, z \in Nat : i + z <= Len(s) => ~(l <= i + z)
  BY <1>4
<1> HIDE DEF l
<1>5. /\ Headers(t) = Headers(s) \cup {l}
      /\ \A i \in Headers(s) : t[i] = s[i]
  BY <1>3, AppendHeaders DEF n, x, l
<1>6. \A i \in Headers(s) : i \in 1 .. Len(s) /\ s[i].size \in Nat /\ i + s[i].size <= Len(s)
                            /\ s[i].entry < aAt /\ s[i].entry \in Nat
  <2> TAKE i \in Headers(s)
  <2>1. /\ i \in 1 .. Len(s) /\ s[i].size \in Nat /\ EndOf(s, i) \in Nat
        /\ EndOf(s, i) = i + s[i].size /\ s[i].entry \in Entries
    BY HeaderFacts
  <2>2. EndOf(s, i) <= Len(s)
    BY <1>4, <2>1 DEF Pending
  <2>3. s[i].entry < aAt
    BY <1>1 DEF Walked
  <2> QED
    BY <2>1, <2>2, <2>3, EntryFacts
<1>7. WellFormed(t)
  <2> SUFFICES ASSUME NEW i \in Headers(t), NEW j \in 1 .. Len(t)
               PROVE  /\ j > i /\ j <= i + t[i].size => t[j] = Byte(t[i].entry)
                      /\ j = i + t[i].size + 1 => IsHeader(t[j])
    BY DEF WellFormed
  <2>1. CASE i = l
    <3>1. i \in Nat /\ t[i].size = n /\ j \in Nat /\ j <= i
      BY <1>3, <1>4, <2>1 DEF l
    <3> QED
      BY <1>2, <3>1
  <2>2. CASE i \in Headers(s) /\ j = l
    <3>1. t[i].size \in Nat /\ i + t[i].size <= Len(s) /\ i \in Nat
      BY <1>5, <1>6, <2>2
    <3>2. ~(j <= i + t[i].size)
      BY <1>a, <2>2, <3>1, Zenon
    <3> QED
      BY <1>3, <1>4, <2>2, <3>2, Zenon
  <2>3. CASE i \in Headers(s) /\ j # l
    <3>1. j \in 1 .. Len(s) /\ t[j] = s[j] /\ t[i] = s[i]
      BY <1>4, <1>5, <1>a, <2>3, Zenon
    <3>2. WellFormed(s)
      BY DEF Archive
    <3> QED
      BY <2>3, <3>1, <3>2 DEF WellFormed
  <2> QED
    BY <1>5, <2>1, <2>2, <2>3
<1>8. IsHeader(t[1])
  <2>1. CASE s = <<>>
    <3>1. l = 1
      BY <2>1, QueueFacts DEF l
    <3> QED
      BY <1>3, <1>4, <3>1
  <2>2. CASE s # <<>>
    <3>1. IsHeader(s[1])
      BY <2>2 DEF Archive
    <3>2. 1 \in 1 .. Len(s)
      BY <1>4, <2>2, QueueFacts
    <3> QED
      BY <1>4, <3>1, <3>2
  <2> QED
    BY <2>1, <2>2
<1>9. \A i, k \in Headers(t) : t[i].entry = t[k].entry => i = k
  <2>1. \A i, k \in Headers(s) : s[i].entry = s[k].entry => i = k
    BY DEF Archive
  <2>2. \A i \in Headers(s) : s[i].entry # aAt
    BY <1>1, <1>6, EntryFacts
  <2>3. t[l].entry = aAt /\ \A i \in Headers(s) : t[i] = s[i]
    BY <1>3, <1>4, <1>5
  <2> SUFFICES ASSUME NEW i \in Headers(t), NEW k \in Headers(t), t[i].entry = t[k].entry
               PROVE  i = k
    OBVIOUS
  <2>4. CASE i = l
    BY <1>5, <2>2, <2>3, <2>4
  <2>5. CASE i \in Headers(s) /\ k = l
    BY <1>5, <2>2, <2>3, <2>5
  <2>6. CASE i \in Headers(s) /\ k \in Headers(s)
    BY <2>1, <2>3, <2>6
  <2> QED
    BY <1>5, <2>4, <2>5, <2>6
<1>10. \A i \in Headers(t) :
         /\ kind[t[i].entry] # "file" => t[i].size = 0
         /\ edits = 0 /\ kind[t[i].entry] = "file" => t[i].size = size[t[i].entry]
  <2>1. \A i \in Headers(s) :
          /\ kind[s[i].entry] # "file" => s[i].size = 0
          /\ edits = 0 /\ kind[s[i].entry] = "file" => s[i].size = size[s[i].entry]
    BY DEF Archive
  <2>2. /\ kind[aAt] # "file" => n = 0
        /\ kind[aAt] = "file" => n = size[aAt]
    BY DEF LstatSize, n
  <2>3. t[l].entry = aAt /\ t[l].size = n /\ \A i \in Headers(s) : t[i] = s[i]
    BY <1>3, <1>4, <1>5
  <2> QED
    BY <1>5, <2>1, <2>2, <2>3, Zenon
<1> QED
  BY <1>7, <1>8, <1>9, <1>10 DEF Archive

\* A byte of the current file extends the archive while its header promises one.
LEMMA ByteArchived ==
  ASSUME TypeOK, NEW s \in Seq(Items), Archive(s), Walked(s), Pending(s),
         aPc = "copy", aNeed # 0, NEW t, t = Append(s, Byte(aAt))
  PROVE  Archive(t)
<1> DEFINE x == Byte(aAt)
           l == Len(s) + 1
<1>1. aAt \in Entries /\ s # <<>>
  BY DEF Walked, Inside
<1>2. x \in Items /\ ~IsHeader(x) /\ x.entry = aAt
  BY <1>1, ItemFacts
<1> HIDE DEF x
<1>3. /\ t \in Seq(Items) /\ Len(s) \in Nat /\ Len(t) = l /\ l \in Nat
      /\ \A i \in 1 .. Len(s) : t[i] = s[i]
      /\ t[l] = x
  BY <1>2, AppendFacts DEF x
<1>4. /\ Headers(t) = Headers(s)
      /\ \A i \in Headers(s) : t[i] = s[i]
  BY <1>2, AppendHeaders DEF x
<1>5. WellFormed(t)
  <2> SUFFICES ASSUME NEW i \in Headers(s), NEW j \in 1 .. Len(t)
               PROVE  /\ j > i /\ j <= i + t[i].size => t[j] = Byte(t[i].entry)
                      /\ j = i + t[i].size + 1 => IsHeader(t[j])
    BY <1>4 DEF WellFormed
  <2>1. /\ i \in 1 .. Len(s) /\ i \in Nat /\ s[i].size \in Nat /\ EndOf(s, i) \in Nat
        /\ EndOf(s, i) = i + s[i].size /\ t[i] = s[i]
    BY <1>4, HeaderFacts
  <2>2. CASE j = l
    <3>1. CASE EndOf(s, i) < Len(s)
      BY <1>3, <2>1, <2>2, <3>1
    <3>2. CASE EndOf(s, i) = Len(s) + aNeed /\ s[i].entry = aAt
      <4>1. aNeed \in Nat
        BY TreeFacts
      <4> QED
        BY <1>3, <2>1, <2>2, <3>2, <4>1 DEF x
    <3>3. aNeed > 0
      BY TreeFacts
    <3> QED
      BY <3>1, <3>2, <3>3 DEF Pending, Inside
  <2>3. CASE j # l
    <3>1. j \in 1 .. Len(s) /\ t[j] = s[j]
      BY <1>3, <2>3
    <3>2. WellFormed(s)
      BY DEF Archive
    <3> QED
      BY <2>1, <3>1, <3>2 DEF WellFormed
  <2> QED
    BY <2>2, <2>3
<1>6. IsHeader(t[1])
  <2>1. IsHeader(s[1]) /\ 1 \in 1 .. Len(s)
    BY <1>1, <1>3, QueueFacts DEF Archive
  <2> QED
    BY <1>3, <2>1
<1>7. /\ \A i, k \in Headers(t) : t[i].entry = t[k].entry => i = k
      /\ \A i \in Headers(t) :
           /\ kind[t[i].entry] # "file" => t[i].size = 0
           /\ edits = 0 /\ kind[t[i].entry] = "file" => t[i].size = size[t[i].entry]
  <2>1. /\ \A i, k \in Headers(s) : s[i].entry = s[k].entry => i = k
        /\ \A i \in Headers(s) :
             /\ kind[s[i].entry] # "file" => s[i].size = 0
             /\ edits = 0 /\ kind[s[i].entry] = "file" => s[i].size = size[s[i].entry]
    BY DEF Archive
  <2>2. \A i \in Headers(t) : i \in Headers(s) /\ t[i] = s[i]
    BY <1>4
  <2>3. \A i, k \in Headers(t) : t[i].entry = t[k].entry => i = k
    BY <2>1, <2>2
  <2>4. \A i \in Headers(t) :
          /\ kind[t[i].entry] # "file" => t[i].size = 0
          /\ edits = 0 /\ kind[t[i].entry] = "file" => t[i].size = size[t[i].entry]
    <3> TAKE i \in Headers(t)
    <3>1. i \in Headers(s) /\ t[i] = s[i]
      BY <2>2
    <3>2. /\ kind[s[i].entry] # "file" => s[i].size = 0
          /\ edits = 0 /\ kind[s[i].entry] = "file" => s[i].size = size[s[i].entry]
      BY <2>1, <3>1
    <3> QED
      BY <3>1, <3>2
  <2> QED
    BY <2>3, <2>4
<1> QED
  BY <1>5, <1>6, <1>7 DEF Archive

\* What a step of the goroutine has to keep.
LEMMA ArchivingKept ==
  ASSUME TypeOK, Archiving, aPc # "off", aPc' # "off", tree' = tree, sender' = sender,
         NEW t, t = Written', Archive(t), edits' = edits, Walked(t)', Pending(t)',
         pipeEnd' = "open" <=> aPc' # "done",
         aPc' = "done" => pipe' = <<>> /\ (pipeEnd' = "eof" <=> ~archiveErr')
  PROVE  Archiving'
<1>1. kind' = kind /\ size' = size /\ sPc' = sPc /\ hand' = hand /\ sHash' = sHash
  BY DEF tree, sender
<1>2. Archive(t)'
  BY <1>1, ArchiveSame
<1>3. Archive(Written)' /\ Walked(Written)' /\ Pending(Written)'
  <2>1. Archive(Written)'
    BY <1>2 DEF Archive
  <2>2. Walked(Written)'
    BY DEF Walked
  <2>3. Pending(Written)'
    BY DEF Pending
  <2> QED
    BY <2>1, <2>2, <2>3
<1> QED
  BY <1>1, <1>3 DEF Archiving

\* The archive while the goroutine runs.
LEMMA ArchivingFacts ==
  ASSUME TypeOK, Archiving, aPc # "off"
  PROVE  /\ Archive(Written) /\ Walked(Written) /\ Pending(Written)
         /\ Written \in Seq(Items)
         /\ pipeEnd = "open" <=> aPc # "done"
         /\ aPc = "done" => pipe = <<>> /\ (pipeEnd = "eof" <=> ~archiveErr)
  BY WrittenFacts DEF Archiving

\* The walk fails.
LEMMA FailureArchiving ==
  ASSUME TypeOK, Archiving, aPc \in Walking, ArchiveFails, pipeEnd' = pipeEnd,
         edits' = edits, ArchiverOnly
  PROVE  Archiving'
<1> PICK t : t = Written
  OBVIOUS
<1>1. /\ aPc # "off" /\ aPc # "done" /\ aPc' = "close" /\ archiveErr' = TRUE
      /\ aAt' = aAt /\ aList' = aList /\ aNeed' = aNeed /\ pipe' = pipe
      /\ tree' = tree /\ sender' = sender /\ edits' = edits
  BY DEF Walking, ArchiveFails, ArchiverOnly
<1>2. /\ Archive(t) /\ Walked(t) /\ Pending(t) /\ t \in Seq(Items)
      /\ pipeEnd = "open" <=> aPc # "done"
  BY <1>1, ArchivingFacts
<1>3. t = Written'
  BY <1>1 DEF Written, sender
<1>4. Walked(t)'
  <2>1. \A i \in Headers(t) : t[i].entry <= aAt
    BY <1>2 DEF Walked
  <2>2. t # <<>> /\ edits = 0 => aList = Entries
    BY <1>2 DEF Walked
  <2> QED
    BY <1>1, <2>1, <2>2 DEF Walked, Walking, Inside
<1>5. Pending(t)'
  <2> SUFFICES ASSUME NEW i \in Headers(t)
               PROVE  \/ EndOf(t, i) <= Len(t) /\ (aNeed > 0 => EndOf(t, i) < Len(t))
                      \/ EndOf(t, i) = Len(t) + aNeed
    BY <1>1 DEF Pending, Inside
  <2> QED
    BY <1>2 DEF Pending
<1> QED
  BY <1>1, <1>2, <1>3, <1>4, <1>5, ArchivingKept

\* A header is written.
LEMMA HeaderArchiving ==
  ASSUME TypeOK, Untouched, Archiving, CanVisit, Present(aAt), aNeed = 0, WriteHeader,
         pipeEnd' = pipeEnd, edits' = edits, ArchiverOnly
  PROVE  Archiving'
<1> DEFINE n == LstatSize(aAt)
           x == Header(aAt, n)
<1> PICK s, t : s = Written /\ t = Append(s, x)
  OBVIOUS
<1>1. /\ aPc = "visit" /\ aAt \in Entries /\ aAt \in Nat /\ aAt \in {1} \cup aList
      /\ aList \subseteq Entries
  BY TreeFacts, EntryFacts DEF CanVisit
<1>2. /\ Archive(s) /\ Walked(s) /\ Pending(s) /\ s \in Seq(Items)
      /\ pipeEnd = "open"
  BY <1>1, ArchivingFacts
<1>3. /\ n \in Nat /\ x \in Items /\ IsHeader(x) /\ x.entry = aAt /\ x.size = n
  BY <1>1, TreeFacts, ItemFacts
<1>4. /\ tree' = tree /\ sender' = sender /\ sHash' = sHash /\ edits' = edits
      /\ Write(x) /\ aNeed' = n /\ aList' = List /\ archiveErr' = archiveErr
      /\ \/ aPc' = "visit" /\ aAt' = aAt + 1
         \/ aPc' = "open" /\ aAt' = aAt
  BY DEF WriteHeader, ArchiverOnly, sender
<1> HIDE DEF n
<1>5. Archive(t)
  BY <1>1, <1>2, HeaderArchived DEF n
<1> HIDE DEF x
<1>6. s = sHash /\ t = Written'
  BY <1>3, <1>4, WriteFacts
<1>7. /\ t \in Seq(Items) /\ t # <<>> /\ Len(s) \in Nat /\ Len(t) = Len(s) + 1
      /\ t[Len(s) + 1] = x
      /\ Headers(t) = Headers(s) \cup {Len(s) + 1}
      /\ \A i \in Headers(s) : t[i] = s[i] /\ EndOf(t, i) = EndOf(s, i)
      /\ \A e : Holds(s, e) => Holds(t, e)
  <2>1. /\ t \in Seq(Items) /\ t # <<>> /\ Len(s) \in Nat /\ Len(t) = Len(s) + 1
        /\ t[Len(s) + 1] = x
    BY <1>2, <1>3, AppendFacts
  <2>2. /\ Headers(t) = Headers(s) \cup {Len(s) + 1}
        /\ \A i \in Headers(s) : t[i] = s[i] /\ EndOf(t, i) = EndOf(s, i)
        /\ \A e : Holds(s, e) => Holds(t, e)
    BY <1>2, <1>3, AppendHeaders
  <2> QED
    BY <2>1, <2>2
<1>8. Holds(t, aAt)
  BY <1>3, <1>7 DEF Holds
<1>9. Walked(t)'
  <2>1. \A i \in Headers(t) : t[i].entry <= aAt' /\ (aPc' = "visit" => t[i].entry < aAt')
    <3>a. /\ \A a, b \in Nat : a < b => a <= b
          /\ \A a, b \in Nat : a <= b => a <= b + 1 /\ a < b + 1
      OBVIOUS
    <3>1. \A i \in Headers(s) : s[i].entry < aAt /\ s[i].entry \in Nat
      BY <1>1, <1>2, HeaderFacts, EntryFacts DEF Walked
    <3>2. \A i \in Headers(t) : t[i].entry <= aAt /\ t[i].entry \in Nat
      <4> SUFFICES ASSUME NEW i \in Headers(t)
                   PROVE  t[i].entry <= aAt /\ t[i].entry \in Nat
        OBVIOUS
      <4>1. CASE i = Len(s) + 1
        BY <1>1, <1>3, <1>7, <4>1
      <4>2. CASE i \in Headers(s)
        BY <1>1, <1>7, <3>1, <3>a, <4>2, Zenon
      <4> QED
        BY <1>7, <4>1, <4>2
    <3>3. ASSUME aPc' = "open" /\ aAt' = aAt
          PROVE  \A i \in Headers(t) : t[i].entry <= aAt'
      BY <3>2, <3>3
    <3>4. ASSUME aAt' = aAt + 1
          PROVE  \A i \in Headers(t) : t[i].entry <= aAt' /\ t[i].entry < aAt'
      BY <1>1, <3>2, <3>4, <3>a, Zenon
    <3> QED
      BY <1>4, <3>3, <3>4
  <2>2. ~archiveErr'
    BY <1>1, <1>2, <1>4 DEF Walked, Walking
  <2>3. ASSUME NEW e \in {1} \cup aList', e < aAt' \/ (e = aAt' /\ aPc' \in Inside)
        PROVE  Holds(t, e)
    <3>1. e \in Nat /\ e \in Entries /\ e >= 1
      BY <1>1, <1>4, EntryFacts DEF List
    <3>2. e < aAt \/ e = aAt
      BY <1>1, <1>4, <2>3, <3>1 DEF Inside
    <3>3. CASE e < aAt
      <4>1. aAt # 1
        BY <1>1, <3>1, <3>3
      <4>2. e \in {1} \cup aList
        BY <1>4, <2>3, <4>1 DEF List
      <4> QED
        BY <1>2, <1>4, <1>7, <2>2, <3>3, <4>2 DEF Walked
    <3> QED
      BY <1>8, <3>2, <3>3
  <2>4. ASSUME edits = 0
        PROVE  aList' = Entries
    <3>1. \A e \in Entries : Present(e)
      BY <2>4 DEF Untouched, Present
    <3>2. CASE aAt = 1
      BY <1>4, <3>1, <3>2 DEF List
    <3>3. CASE aAt # 1
      BY <1>1, <1>2, <1>4, <2>4, <3>1, <3>3 DEF Walked, List
    <3> QED
      BY <3>2, <3>3
  <2>5. aPc' \in Inside => aAt' \in Entries
    BY <1>1, <1>4 DEF Inside
  <2>6. aPc' \notin {"close", "done"}
    BY <1>4
  <2> QED
    BY <1>4, <1>7, <2>1, <2>2, <2>3, <2>4, <2>5, <2>6 DEF Walked
<1>10. Pending(t)'
  <2> SUFFICES ASSUME NEW i \in Headers(t)
               PROVE  \/ EndOf(t, i) <= Len(t) /\ (n > 0 => EndOf(t, i) < Len(t))
                      \/ EndOf(t, i) = Len(t) + n /\ (aPc' \in Inside => t[i].entry = aAt')
    BY <1>4 DEF Pending
  <2>1. CASE i = Len(s) + 1
    <3>1. EndOf(t, i) = Len(t) + n
      BY <1>3, <1>7, <2>1 DEF EndOf
    <3> QED
      BY <1>3, <1>4, <1>7, <2>1, <3>1 DEF Inside
  <2>2. CASE i \in Headers(s)
    <3>1. EndOf(s, i) <= Len(s) /\ EndOf(s, i) \in Nat /\ EndOf(t, i) = EndOf(s, i)
      BY <1>2, <1>7, <2>2, HeaderFacts DEF Pending
    <3> QED
      BY <1>7, <3>1
  <2> QED
    BY <1>7, <2>1, <2>2
<1> QED
  BY <1>1, <1>2, <1>4, <1>5, <1>6, <1>9, <1>10, ArchivingKept

\* A byte of a file is written.
LEMMA ByteArchiving ==
  ASSUME TypeOK, Archiving, aPc = "copy", aNeed # 0, Write(Byte(aAt)),
         aNeed' = aNeed - 1, UNCHANGED <<aPc, aAt, aList, archiveErr, pipeEnd>>,
         edits' = edits, ArchiverOnly
  PROVE  Archiving'
<1> DEFINE x == Byte(aAt)
<1> PICK s, t : s = Written /\ t = Append(s, x)
  OBVIOUS
<1>1. /\ Archive(s) /\ Walked(s) /\ Pending(s) /\ s \in Seq(Items)
      /\ pipeEnd = "open"
  BY ArchivingFacts
<1>2. /\ aAt \in Entries /\ s # <<>>
  BY <1>1 DEF Walked, Inside
<1>3. x \in Items /\ ~IsHeader(x)
  BY <1>2, ItemFacts
<1>4. tree' = tree /\ sender' = sender /\ sHash' = sHash
  BY DEF ArchiverOnly, sender
<1>5. Archive(t)
  BY <1>1, <1>2, ByteArchived
<1> HIDE DEF x
<1>6. s = sHash /\ t = Written'
  BY <1>3, <1>4, WriteFacts DEF x
<1>7. /\ t # <<>> /\ Len(s) \in Nat /\ Len(t) = Len(s) + 1
      /\ Headers(t) = Headers(s)
      /\ \A i \in Headers(s) : t[i] = s[i] /\ EndOf(t, i) = EndOf(s, i)
      /\ \A e : Holds(s, e) => Holds(t, e)
  BY <1>1, <1>3, AppendFacts, AppendHeaders
<1>8. Walked(t)'
  <2>1. /\ \A i \in Headers(s) : s[i].entry <= aAt
        /\ ~archiveErr /\ (edits = 0 => aList = Entries)
        /\ \A e \in {1} \cup aList : e < aAt \/ e = aAt => Holds(s, e)
    BY <1>1, <1>2 DEF Walked, Walking, Inside
  <2> QED
    BY <1>2, <1>7, <2>1 DEF Walked, Walking, Inside
<1>9. Pending(t)'
  <2> SUFFICES ASSUME NEW i \in Headers(s)
               PROVE  \/ EndOf(t, i) <= Len(t) /\ (aNeed' > 0 => EndOf(t, i) < Len(t))
                      \/ EndOf(t, i) = Len(t) + aNeed' /\ t[i].entry = aAt
    BY <1>7 DEF Pending
  <2>1. /\ EndOf(t, i) = EndOf(s, i) /\ t[i] = s[i] /\ EndOf(s, i) \in Nat
        /\ aNeed \in Nat
    BY <1>1, <1>7, HeaderFacts, TreeFacts
  <2>2. \/ EndOf(s, i) < Len(s)
        \/ EndOf(s, i) = Len(s) + aNeed /\ s[i].entry = aAt
    BY <1>1, <2>1 DEF Pending, Inside
  <2>3. CASE EndOf(s, i) < Len(s)
    BY <1>7, <2>1, <2>3
  <2>4. CASE EndOf(s, i) = Len(s) + aNeed /\ s[i].entry = aAt
    BY <1>7, <2>1, <2>4
  <2> QED
    BY <2>2, <2>3, <2>4
<1> QED
  BY <1>1, <1>4, <1>5, <1>6, <1>8, <1>9, ArchivingKept

\* A step of the goroutine that writes nothing and does not end it.
LEMMA WalkArchiving ==
  ASSUME TypeOK, Archiving, aPc \in Walking,
         UNCHANGED <<aList, aNeed, archiveErr, pipe, pipeEnd>>, edits' = edits, ArchiverOnly,
         \/ aPc = "visit" /\ aAt \notin {1} \cup aList /\ aAt' = aAt + 1 /\ aPc' = "visit"
         \/ aPc = "visit" /\ aAt \notin Entries /\ aAt' = aAt /\ aPc' = "close"
         \/ aPc = "open" /\ aAt' = aAt /\ aPc' = "copy"
         \/ aPc = "copy" /\ aAt' = aAt + 1 /\ aPc' = "visit"
  PROVE  Archiving'
<1> PICK t : t = Written
  OBVIOUS
<1>1. /\ Archive(t) /\ Walked(t) /\ Pending(t) /\ t \in Seq(Items)
      /\ pipeEnd = "open" /\ aPc # "off" /\ aPc' # "off" /\ aPc' # "done"
      /\ aAt \in Nat /\ aAt >= 1
      /\ aList \subseteq Entries
  BY ArchivingFacts, TreeFacts DEF Walking
<1>2. /\ tree' = tree /\ sender' = sender /\ t = Written'
  BY DEF ArchiverOnly, Written, sender
<1>3. /\ ~archiveErr /\ (t # <<>> /\ edits = 0 => aList = Entries)
      /\ \A i \in Headers(t) : /\ t[i].entry <= aAt /\ t[i].entry \in Nat
                               /\ aPc = "visit" => t[i].entry < aAt
      /\ \A e \in {1} \cup aList : e < aAt \/ (e = aAt /\ aPc \in Inside) => Holds(t, e)
  BY <1>1, HeaderFacts, EntryFacts DEF Walked
<1>4. {1} \cup aList \subseteq Nat /\ 1 \in {1} \cup aList
  BY <1>1, EntryFacts
<1>5. Pending(t)'
  <2> SUFFICES ASSUME NEW i \in Headers(t)
               PROVE  \/ EndOf(t, i) <= Len(t) /\ (aNeed > 0 => EndOf(t, i) < Len(t))
                      \/ EndOf(t, i) = Len(t) + aNeed
                           /\ (aPc' \in Inside => t[i].entry = aAt')
    BY DEF Pending
  <2> QED
    BY <1>1 DEF Pending, Inside
<1>6. CASE aPc' = "visit" /\ aAt' = aAt + 1
  <2>a. \/ aPc = "visit" /\ aAt \notin {1} \cup aList
        \/ aPc = "copy"
    BY <1>1, <1>6
  <2>1. \A i \in Headers(t) : t[i].entry <= aAt' /\ t[i].entry < aAt'
    <3> \A a, b \in Nat : a <= b => a <= b + 1 /\ a < b + 1
      OBVIOUS
    <3> QED
      BY <1>1, <1>3, <1>6, Zenon
  <2>2. ASSUME NEW e \in {1} \cup aList, e < aAt + 1
        PROVE  Holds(t, e)
    <3>1. e < aAt \/ e = aAt
      BY <1>1, <1>4, <2>2
    <3>2. CASE e = aAt
      BY <1>3, <2>2, <2>a, <3>2 DEF Walking, Inside
    <3> QED
      BY <1>3, <3>1, <3>2
  <2>3. t # <<>>
    <3>1. CASE aPc = "visit"
      BY <1>1, <2>a, <3>1 DEF Walked
    <3>2. CASE aPc # "visit"
      BY <1>1, <3>2 DEF Walked, Walking, Inside
    <3> QED
      BY <3>1, <3>2
  <2>4. Walked(t)'
    BY <1>3, <1>6, <2>1, <2>2, <2>3 DEF Walked, Walking, Inside
  <2> QED
    BY <1>1, <1>2, <1>5, <2>4, ArchivingKept
<1>7. CASE aAt' = aAt /\ aPc' \in {"close", "copy"}
  <2>1. aPc' = "copy" => aPc = "open" /\ aAt \in Entries /\ t # <<>>
    BY <1>1, <1>7 DEF Walked, Inside
  <2>2. aPc' = "close" => aAt \notin Entries
    BY <1>7
  <2>3. Walked(t)'
    BY <1>3, <1>7, <2>1, <2>2 DEF Walked, Walking, Inside
  <2> QED
    BY <1>1, <1>2, <1>5, <2>3, ArchivingKept
<1> QED
  BY <1>6, <1>7

\* The goroutine ends the pipe.
LEMMA CloseArchiving ==
  ASSUME TypeOK, Archiving, CloseArchive
  PROVE  Archiving'
<1> PICK t : t = Written
  OBVIOUS
<1>1. /\ aPc = "close" /\ aPc' = "done" /\ pipe = <<>> /\ pipe' = <<>>
      /\ pipeEnd' = (IF archiveErr THEN "error" ELSE "eof")
      /\ aAt' = aAt /\ aList' = aList /\ aNeed' = aNeed /\ archiveErr' = archiveErr
      /\ edits' = edits /\ tree' = tree /\ sender' = sender
  BY DEF CloseArchive, ArchiverOnly, bounds
<1>2. Archive(t) /\ Walked(t) /\ Pending(t)
  BY <1>1, ArchivingFacts
<1>3. t = Written'
  BY <1>1 DEF Written, sender
<1>4. Walked(t)'
  BY <1>1, <1>2 DEF Walked, Walking, Inside
<1>5. Pending(t)'
  BY <1>1, <1>2 DEF Pending, Inside
<1> QED
  BY <1>1, <1>2, <1>3, <1>4, <1>5, ArchivingKept

\* A step of the goroutine keeps the archive in shape.
LEMMA ArchiverArchiving ==
  ASSUME TypeOK, Untouched, Archiving, ArchiverStep \/ ArchiveFault \/ OpenFifo
  PROVE  Archiving'
<1>1. aNeed \in Nat
  BY TreeFacts
<1>2. CASE Visit
  <2>1. CASE Present(aAt) /\ aNeed = 0
    BY <1>2, <2>1, HeaderArchiving DEF Visit, bounds
  <2>2. CASE ~(Present(aAt) /\ aNeed = 0)
    BY <1>2, <2>2, FailureArchiving DEF Visit, CanVisit, Walking, bounds
  <2> QED
    BY <2>1, <2>2
<1>3. CASE VisitNext
  <2>1. 1 \in Entries
    BY EntryFacts
  <2> QED
    BY <1>3, <2>1, WalkArchiving DEF VisitNext, Walking, bounds
<1>4. CASE Open \/ OpenFifo
  <2>1. CASE size[aAt] = Gone
    BY <1>4, <2>1, FailureArchiving DEF Open, OpenFifo, Opened, Walking, bounds
  <2>2. CASE size[aAt] # Gone
    BY <1>4, <2>2, WalkArchiving DEF Open, OpenFifo, Opened, Walking, bounds
  <2> QED
    BY <2>1, <2>2
<1>5. CASE CopyIn
  <2>1. CASE aNeed = 0
    BY <1>5, <2>1, FailureArchiving DEF CopyIn, Walking, bounds
  <2>2. CASE aNeed # 0
    BY <1>5, <2>2, ByteArchiving DEF CopyIn, bounds
  <2> QED
    BY <2>1, <2>2
<1>6. CASE CopyInEnd
  BY <1>6, WalkArchiving DEF CopyInEnd, Walking, bounds
<1>7. CASE CloseArchive
  BY <1>7, CloseArchiving
<1>8. CASE ArchiveFault
  BY <1>8, FailureArchiving DEF ArchiveFault, Fault, Walking
<1> QED
  BY <1>2, <1>3, <1>4, <1>5, <1>6, <1>7, <1>8 DEF ArchiverStep

\* Whatever leaves the tree, the goroutine and the pipe keeps the archive.
LEMMA ArchivingSame ==
  ASSUME Archiving, UNCHANGED <<tree, archiver, pipe, pipeEnd, sHash>>, edits' = edits,
         \/ sPc' = sPc /\ hand' = hand
         \/ {sPc, sPc'} \cap (Finished \cup {"start"}) = {} /\ sPc' # "send"
  PROVE  Archiving'
<1>1. /\ kind' = kind /\ size' = size /\ Written' = Written
      /\ UNCHANGED <<aPc, aAt, aList, aNeed, archiveErr, pipe, pipeEnd, sHash>>
  BY DEF tree, archiver, Written
<1>2. aPc # "off" => /\ Archive(Written)' /\ Walked(Written)' /\ Pending(Written)'
                     /\ pipeEnd' = "open" <=> aPc' # "done"
                     /\ aPc' = "done" => pipe' = <<>> /\ (pipeEnd' = "eof" <=> ~archiveErr')
  <2> SUFFICES ASSUME aPc # "off"
               PROVE  /\ Archive(Written)' /\ Walked(Written)' /\ Pending(Written)'
                      /\ pipeEnd' = "open" <=> aPc' # "done"
                      /\ aPc' = "done" => pipe' = <<>> /\ (pipeEnd' = "eof" <=> ~archiveErr')
    OBVIOUS
  <2>1. Archive(Written) /\ Walked(Written) /\ Pending(Written)
    BY DEF Archiving
  <2>2. Archive(Written)'
    BY <1>1, <2>1 DEF Archive
  <2>3. Walked(Written)'
    BY <1>1, <2>1 DEF Walked
  <2>4. Pending(Written)'
    BY <1>1, <2>1 DEF Pending
  <2> QED
    BY <1>1, <2>2, <2>3, <2>4 DEF Archiving
<1>3. CASE sPc' = sPc /\ hand' = hand
  BY <1>1, <1>2, <1>3 DEF Archiving
<1>4. CASE {sPc, sPc'} \cap (Finished \cup {"start"}) = {} /\ sPc' # "send"
  <2>1. /\ sPc \notin Finished \cup {"start"} /\ sPc' \notin Finished \cup {"start"}
        /\ sPc' # "send"
    BY <1>4
  <2> QED
    BY <1>1, <1>2, <2>1 DEF Archiving, Finished
<1> QED
  BY <1>3, <1>4

\* The goroutine ends with the sender.
LEMMA EndArchiving ==
  ASSUME NEW result \in {"ok", "failed"}, SenderEnds(result)
  PROVE  Archiving'
  BY DEF SenderEnds, Archiving, Finished

\* A step of the sender keeps the archive in shape.
LEMMA SenderArchiving ==
  ASSUME TypeOK, Archiving, SenderStep \/ SenderFault
  PROVE  Archiving'
<1>1. CASE SendStart
  <2>1. /\ sPc = "start" /\ sPc' = "stream" /\ aPc' = "visit" /\ hand' = hand
        /\ UNCHANGED <<aAt, aList, aNeed, archiveErr, pipe, pipeEnd, sHash>>
    BY <1>1 DEF SendStart
  <2>2. /\ aAt = 1 /\ aList = {} /\ aNeed = 0 /\ ~archiveErr /\ pipeEnd = "open"
        /\ sHash = <<>> /\ pipe = <<>>
    BY <2>1 DEF Archiving
  <2>3. Written' = <<>>
    BY <2>1, <2>2 DEF Written
  <2>4. Headers(<<>>) = {}
    BY DEF Headers
  <2>5. Archive(Written)' /\ Walked(Written)' /\ Pending(Written)'
    <3>1. Archive(Written)'
      BY <2>3, <2>4 DEF Archive, WellFormed
    <3>2. Walked(Written)'
      <4>1. \A e \in {1} \cup {} : ~(e < 1)
        OBVIOUS
      <4> QED
        BY <2>1, <2>2, <2>3, <2>4, <4>1 DEF Walked, Walking, Inside
    <3>3. Pending(Written)'
      BY <2>3, <2>4 DEF Pending
    <3> QED
      BY <3>1, <3>2, <3>3
  <2> QED
    BY <2>1, <2>2, <2>5 DEF Archiving, Finished
<1>2. CASE ReadPipe
  <2>1. /\ sPc = "stream" /\ sPc' = "send" /\ pipe # <<>> /\ pipe' = <<>> /\ hand' = pipe
        /\ sHash' = sHash \o pipe /\ pipeEnd' = pipeEnd /\ kind' = kind /\ size' = size
        /\ UNCHANGED <<aPc, aAt, aList, aNeed, archiveErr>> /\ edits' = edits
    BY <1>2 DEF ReadPipe, SenderOnly, archiver, tree, bounds
  <2>2. aPc # "off"
    BY <2>1 DEF Archiving, Finished
  <2>3. /\ Archive(Written) /\ Walked(Written) /\ Pending(Written)
        /\ pipeEnd = "open" <=> aPc # "done"
        /\ aPc # "done"
    BY <2>1, <2>2 DEF Archiving
  <2>4. sHash' = Written /\ Written' = Written
    BY <2>1, WrittenFacts DEF Written
  <2>5. Archive(Written)'
    BY <2>1, <2>3, <2>4 DEF Archive
  <2>6. Walked(Written)'
    BY <2>1, <2>3, <2>4 DEF Walked
  <2>7. Pending(Written)'
    BY <2>1, <2>3, <2>4 DEF Pending
  <2>8. sHash' # <<>> /\ hand' = <<sHash'[Len(sHash')]>>
    <3>1. pipe[1] \in Items /\ pipe = <<pipe[1]>> /\ sHash \in Seq(Items)
      BY <2>1, SingleFacts DEF TypeOK
    <3>2. Written = Append(sHash, pipe[1])
      BY <2>1 DEF Written
    <3>3. Written # <<>> /\ Written[Len(Written)] = pipe[1]
      BY <3>1, <3>2, AppendFacts
    <3> QED
      BY <2>1, <2>4, <3>1, <3>3
  <2> QED
    BY <2>1, <2>2, <2>3, <2>5, <2>6, <2>7, <2>8 DEF Archiving, Finished
<1>3. CASE SendChunk \/ SendComplete \/ SendChecksum
  <2>1. /\ {sPc, sPc'} \cap (Finished \cup {"start"}) = {} /\ sPc' # "send"
        /\ UNCHANGED <<tree, archiver, pipe, pipeEnd, sHash>> /\ edits' = edits
    BY <1>3 DEF SendChunk, SendComplete, SendChecksum, ArchiverUnchanged, SenderOnly, Finished,
                bounds
  <2> QED
    BY <2>1, ArchivingSame
<1>4. CASE ReadEnd
  <2>1. CASE pipeEnd = "eof" /\ ~archiveErr
    <3>1. /\ {sPc, sPc'} \cap (Finished \cup {"start"}) = {} /\ sPc' # "send"
          /\ UNCHANGED <<tree, archiver, pipe, pipeEnd, sHash>> /\ edits' = edits
      BY <1>4, <2>1 DEF ReadEnd, ArchiverUnchanged, SenderOnly, Finished, bounds
    <3> QED
      BY <3>1, ArchivingSame
  <2>2. CASE ~(pipeEnd = "eof" /\ ~archiveErr)
    BY <1>4, <2>2, EndArchiving DEF ReadEnd
  <2> QED
    BY <2>1, <2>2
<1>5. CASE SenderVerdict
  BY <1>5, EndArchiving DEF SenderVerdict
<1>6. CASE SenderLinkError
  BY <1>6, EndArchiving DEF SenderLinkError
<1>7. CASE SenderFault
  BY <1>7, EndArchiving DEF SenderFault
<1> QED
  BY <1>1, <1>2, <1>3, <1>4, <1>5, <1>6, <1>7 DEF SenderStep

\* A new session, or a change of the tree, keeps the archive in shape.
LEMMA OtherArchiving ==
  ASSUME TypeOK, Archiving,
         \/ Connect
         \/ \E e \in Entries, n \in Sizes \cup {Gone} : Edit(e, n)
  PROVE  Archiving'
<1>1. CASE Connect
  BY <1>1 DEF Connect, Archiving, Finished
<1>2. CASE \E e \in Entries, n \in Sizes \cup {Gone} : Edit(e, n)
  <2>1. /\ kind' = kind /\ sPc' = sPc /\ hand' = hand /\ edits' = edits + 1 /\ edits \in Nat
        /\ UNCHANGED <<aPc, aAt, aList, aNeed, archiveErr, pipe, pipeEnd, sHash>>
    BY <1>2, BoundsAssumption DEF Edit, archiver, sender, TypeOK
  <2>2. edits' # 0 /\ Written' = Written
    BY <2>1 DEF Written
  <2> SUFFICES ASSUME aPc # "off"
               PROVE  Archive(Written)' /\ Walked(Written)' /\ Pending(Written)'
    BY <2>1 DEF Archiving
  <2>3. Archive(Written) /\ Walked(Written) /\ Pending(Written)
    BY DEF Archiving
  <2>4. Archive(Written)'
    BY <2>1, <2>2, <2>3 DEF Archive
  <2>5. Walked(Written)'
    BY <2>1, <2>2, <2>3 DEF Walked
  <2>6. Pending(Written)'
    BY <2>1, <2>2, <2>3 DEF Pending
  <2> QED
    BY <2>4, <2>5, <2>6
<1> QED
  BY <1>1, <1>2

\* What the receiver does, or the link, leaves the sender as it is.
LEMMA ReceiverOutside ==
  ASSUME TypeOK, ReceiverStep \/ ReceiverFault \/ LinkLoss
  PROVE  /\ UNCHANGED <<tree, archiver, pipe, pipeEnd, sender>> /\ edits' = edits
         /\ faults \in Nat /\ (faults' = faults \/ faults' = faults + 1)
<1>1. faults \in Nat
  BY BoundsAssumption DEF TypeOK
<1>2. CASE ReceiverStep
  BY <1>1, <1>2 DEF ReceiverStep, ReceiveStart, ReceiveEOF, ReceiveChunk, ReceiveComplete,
     ReceiveChecksum, SendSum, UnpackHeader, UnpackByte, UnpackEnd, ReceiverLinkError,
     ReceiverOnly, bounds
<1>3. CASE ReceiverFault \/ LinkLoss
  BY <1>1, <1>3 DEF ReceiverFault, LinkLoss, Fault
<1> QED
  BY <1>2, <1>3

\* Every step keeps the archive in shape.
LEMMA ArchivingNext ==
  ASSUME TypeOK, Untouched, Archiving, [Next]_vars
  PROVE  Archiving' /\ Untouched'
<1>1. CASE ArchiverStep \/ ArchiveFault \/ OpenFifo
  <2>1. tree' = tree /\ edits' = edits
    BY <1>1 DEF ArchiverStep, ArchiveFault, Visit, VisitNext, Open, OpenFifo, Opened, CopyIn,
       CopyInEnd, CloseArchive, ArchiverOnly, Fault, bounds
  <2> QED
    BY <1>1, <2>1, ArchiverArchiving DEF Untouched, tree
<1>2. CASE SenderStep \/ SenderFault
  <2>1. tree' = tree /\ edits' = edits
    BY <1>2 DEF SenderStep, SenderFault, SendStart, ReadPipe, SendChunk, ReadEnd, SendComplete,
       SendChecksum, SenderVerdict, SenderLinkError, SenderOnly, Fault, bounds
  <2> QED
    BY <1>2, <2>1, SenderArchiving DEF Untouched, tree
<1>3. CASE ReceiverStep \/ ReceiverFault \/ LinkLoss
  BY <1>3, ReceiverOutside, ArchivingSame DEF Untouched, tree, sender
<1>4. CASE Connect
  BY <1>4, OtherArchiving DEF Connect, Untouched, tree, bounds
<1>5. CASE \E e \in Entries, n \in Sizes \cup {Gone} : Edit(e, n)
  <2>1. edits' = edits + 1 /\ edits \in Nat
    BY <1>5, BoundsAssumption DEF Edit, TypeOK
  <2> QED
    BY <1>5, <2>1, OtherArchiving DEF Untouched
<1>6. CASE UNCHANGED vars
  BY <1>6, ArchivingSame DEF vars, tree, sender, bounds, Untouched
<1> QED
  BY <1>1, <1>2, <1>3, <1>4, <1>5, <1>6 DEF Next

-----------------------------------------------------------------------------
(* What the steps do to the session and to the stream.                     *)

Sending == {"start", "send", "complete", "checksum"}

\* A message of the sender: chunks are of what it has just hashed, the checksum
\* is of all of it.
FromSender(m) ==
  /\ m \in MessageTypes
  /\ m.type = "file_chunk" => sPc = "send" /\ m.index = Len(sHash) - 1 /\ m.chunk = hand
  /\ m.type = "file_checksum" => sPc = "checksum" /\ m.checksum = sHash

SenderSends ==
  /\ sPc \in Sending /\ sPc' \notin Finished \cup {"start"} /\ sHash' = sHash
  /\ sPc' \in {"complete", "checksum", "verdict"} => sPc \in {"complete", "checksum"}
  /\ sPc' \in AfterSum <=> sPc = "checksum"
  /\ \/ toR' = toR
     \/ \E m : FromSender(m) /\ toR' = Append(toR, m) /\ Len(toR) < Window
  /\ UNCHANGED <<aList, archiveErr, pipe, pipeEnd, up, toS>>

SenderReads ==
  /\ sPc = "stream" /\ sPc' = "send" /\ pipe # <<>> /\ sHash' = Written
  /\ UNCHANGED <<archiver, pipeEnd, net>>

SenderAnnounces ==
  /\ sPc = "stream" /\ sPc' = "complete" /\ pipeEnd = "eof" /\ ~archiveErr
  /\ UNCHANGED <<archiver, pipe, pipeEnd, sHash, net>>

SenderReturns ==
  /\ sPc' \in {"ok", "failed"} /\ (sPc' = "ok" => sPc = "verdict" /\ toS # <<>>)
  /\ up' = FALSE /\ toR' \in Prefixes(toR) /\ toS' = <<>> /\ pipe' = <<>> /\ aPc' = "off"
  /\ UNCHANGED <<aAt, aList, aPos, aNeed, archiveErr, pipeEnd, hand, sHash>>

\* A step of the sender is one of four kinds.
LEMMA SenderMoves ==
  ASSUME TypeOK, Archiving, SenderStep \/ SenderFault
  PROVE  /\ UNCHANGED <<tree, receiver>> /\ edits' = edits
         /\ faults \in Nat /\ (faults' = faults \/ faults' = faults + 1)
         /\ SenderSends \/ SenderReads \/ SenderAnnounces \/ SenderReturns
<1>1. faults \in Nat
  BY BoundsAssumption DEF TypeOK
<1>2. ASSUME NEW m \in MessageTypes, CanSend(toR), toR' = Sent(toR, m), FromSender(m)
      PROVE  \/ toR' = toR
             \/ \E n : FromSender(n) /\ toR' = Append(toR, n) /\ Len(toR) < Window
  BY <1>2 DEF CanSend, Sent
<1>3. CASE SendStart
  <2>1. Start \in MessageTypes /\ Start.type = "file_start"
    BY DEF MessageTypes, Start
  <2>2. FromSender(Start)
    BY <2>1 DEF FromSender
  <2> QED
    BY <1>1, <1>2, <1>3, <2>1, <2>2 DEF SendStart, SenderOnly, bounds, SenderSends, Sending,
       Finished, AfterSum
<1>4. CASE ReadPipe
  BY <1>1, <1>4, WrittenFacts DEF ReadPipe, SenderOnly, bounds, SenderReads
<1>5. CASE SendChunk
  <2> DEFINE m == Chunk(Len(sHash) - 1, hand)
  <2>1. sHash \in Seq(Items) /\ sHash # <<>> /\ hand \in Seq(Items)
    BY <1>5 DEF SendChunk, Archiving, TypeOK
  <2>2. Len(sHash) - 1 \in Nat
    BY <2>1, QueueFacts
  <2>3. m \in MessageTypes /\ m.type = "file_chunk" /\ m.index = Len(sHash) - 1 /\ m.chunk = hand
    BY <2>1, <2>2 DEF MessageTypes, Chunk
  <2> HIDE DEF m
  <2>4. FromSender(m)
    BY <1>5, <2>3 DEF FromSender, SendChunk
  <2> QED
    BY <1>1, <1>2, <1>5, <2>3, <2>4 DEF SendChunk, SenderOnly, bounds, SenderSends, Sending,
       Finished, AfterSum, ArchiverUnchanged, archiver, m
<1>6. CASE ReadEnd
  <2>1. CASE pipeEnd = "eof" /\ ~archiveErr
    BY <1>1, <1>6, <2>1 DEF ReadEnd, SenderOnly, bounds, SenderAnnounces, ArchiverUnchanged
  <2>2. CASE ~(pipeEnd = "eof" /\ ~archiveErr)
    BY <1>1, <1>6, <2>2 DEF ReadEnd, SenderOnly, bounds, SenderReturns, SenderEnds
  <2> QED
    BY <2>1, <2>2
<1>7. CASE SendComplete
  <2>1. Complete \in MessageTypes /\ Complete.type = "file_complete"
    BY DEF MessageTypes, Complete
  <2>2. FromSender(Complete)
    BY <2>1 DEF FromSender
  <2> QED
    BY <1>1, <1>2, <1>7, <2>1, <2>2 DEF SendComplete, SenderOnly, bounds, SenderSends, Sending,
       Finished, AfterSum, ArchiverUnchanged, archiver
<1>8. CASE SendChecksum
  <2> DEFINE m == Checksum(sHash)
  <2>1. sHash \in Seq(Items)
    BY DEF TypeOK
  <2>2. m \in MessageTypes /\ m.type = "file_checksum" /\ m.checksum = sHash
    BY <2>1 DEF MessageTypes, Checksum
  <2> HIDE DEF m
  <2>3. FromSender(m)
    BY <1>8, <2>2 DEF FromSender, SendChecksum
  <2> QED
    BY <1>1, <1>2, <1>8, <2>2, <2>3 DEF SendChecksum, SenderOnly, bounds, SenderSends, Sending,
       Finished, AfterSum, ArchiverUnchanged, archiver, m
<1>9. CASE SenderVerdict
  BY <1>1, <1>9 DEF SenderVerdict, SenderOnly, bounds, SenderReturns, SenderEnds
<1>10. CASE SenderLinkError
  BY <1>1, <1>10 DEF SenderLinkError, SenderOnly, bounds, SenderReturns, SenderEnds
<1>11. CASE SenderFault
  BY <1>1, <1>11 DEF SenderFault, SenderReturns, SenderEnds, Fault
<1> QED
  BY <1>3, <1>4, <1>5, <1>6, <1>7, <1>8, <1>9, <1>10, <1>11 DEF SenderStep

\* The goroutine leaves the processes and the session as they are, and works on
\* no finished archive.
LEMMA ArchiverOutside ==
  ASSUME TypeOK, Archiving, ArchiverStep \/ ArchiveFault \/ OpenFifo
  PROVE  /\ UNCHANGED <<tree, sender, receiver, net>> /\ edits' = edits
         /\ faults \in Nat /\ (faults' = faults \/ faults' = faults + 1)
         /\ pipeEnd = "open" /\ ~Whole
<1>1. faults \in Nat
  BY BoundsAssumption DEF TypeOK
<1>2. CASE ArchiverStep \/ OpenFifo
  <2>1. UNCHANGED <<tree, sender, receiver, net>> /\ edits' = edits /\ faults' = faults
    BY <1>2 DEF ArchiverStep, Visit, VisitNext, Open, OpenFifo, Opened, CopyIn, CopyInEnd,
       CloseArchive, ArchiverOnly, bounds
  <2>2. aPc \notin {"off", "done"}
    BY <1>2 DEF ArchiverStep, Visit, CanVisit, VisitNext, Open, OpenFifo, CopyIn, CopyInEnd,
       CloseArchive
  <2> QED
    BY <1>1, <2>1, <2>2 DEF Archiving, Whole
<1>3. CASE ArchiveFault
  BY <1>1, <1>3 DEF ArchiveFault, ArchiverOnly, Fault, Archiving, Whole
<1> QED
  BY <1>2, <1>3

\* How a step of the receiver changes what the two ends exchange.
LEMMA ReceiverMoves ==
  ASSUME ReceiverStep \/ ReceiverFault
  PROVE  /\ \/ toR' = toR \/ toR' = <<>>
            \/ toR # <<>> /\ toR' = Tail(toR)
         /\ \/ toS' \in Prefixes(toS) \/ toS' = toS
            \/ rPc = "send_sum" /\ toS' = Append(toS, Checksum(rTmp)) /\ Len(toS) < Window
<1>1. CASE ReceiveStart \/ ReceiveEOF \/ ReceiveChunk \/ ReceiveComplete \/ ReceiveChecksum
  BY <1>1 DEF ReceiveStart, ReceiveEOF, ReceiveChunk, ReceiveComplete, ReceiveChecksum, Receive,
     ReceiverEnds
<1>2. CASE SendSum
  BY <1>2 DEF SendSum, Sent, CanSend
<1>3. CASE UnpackHeader \/ UnpackByte \/ UnpackEnd \/ ReceiverLinkError \/ ReceiverFault
  BY <1>3 DEF UnpackHeader, UnpackByte, UnpackEnd, ReceiverLinkError, ReceiverFault, ReceiverEnds,
     net
<1> QED
  BY <1>1, <1>2, <1>3 DEF ReceiverStep

-----------------------------------------------------------------------------
(* Types.                                                                  *)

\* Where unpacking expects a header there is one.
LEMMA HeaderNext ==
  ASSUME TypeOK, Announced, Verified, Unpacking, rPc = "unpack", xNeed = 0, xAt <= Len(rTmp)
  PROVE  /\ rTmp = sHash /\ Whole /\ Len(sHash) \in Nat
         /\ xAt \in Headers(sHash) /\ xAt \in Nat /\ xAt >= 1
<1>1. /\ rTmp = sHash /\ Whole /\ sHash \in Seq(Items) /\ xAt \in Nat /\ xAt >= 1
      /\ Archive(sHash) /\ Len(sHash) \in Nat
  BY QueueFacts DEF Announced, Claimed, Verified, Unpacking, UnpackedTo, Whole, TypeOK
<1>2. xAt \in 1 .. Len(sHash)
  BY <1>1
<1>3. CASE xAt = 1
  <2>1. sHash # <<>>
    BY <1>1, <1>2, QueueFacts
  <2> QED
    BY <1>1, <1>2, <1>3, <2>1 DEF Archive, Headers
<1>4. CASE xAt # 1
  <2>1. xAt > 1
    BY <1>1, <1>4
  <2>2. PICK i \in Headers(sHash) : EndOf(sHash, i) = xAt - 1 + xNeed
    BY <2>1 DEF Unpacking, UnpackedTo
  <2>3. i + sHash[i].size \in Nat /\ EndOf(sHash, i) = i + sHash[i].size
    BY <1>1, HeaderFacts
  <2>4. xAt = i + sHash[i].size + 1
    BY <1>1, <2>2, <2>3
  <2>5. IsHeader(sHash[xAt])
    BY <1>1, <1>2, <2>4 DEF Archive, WellFormed
  <2> QED
    BY <1>1, <1>2, <2>5 DEF Headers
<1> QED
  BY <1>3, <1>4

\* The messages stay messages, and no queue outgrows the window.
LEMMA NetTypes ==
  ASSUME TypeOK, Archiving, [Next]_vars
  PROVE  /\ up' \in BOOLEAN /\ toR' \in Seq(MessageTypes) /\ toS' \in Seq(MessageTypes)
         /\ Len(toR') <= Window /\ Len(toS') <= Window
<1>1. /\ up \in BOOLEAN /\ toR \in Seq(MessageTypes) /\ toS \in Seq(MessageTypes)
      /\ Len(toR) <= Window /\ Len(toS) <= Window /\ Window \in Nat
      /\ Len(toR) \in Nat /\ Len(toS) \in Nat
  BY BoundsAssumption, QueueFacts DEF TypeOK
<1>2. \A q \in Seq(MessageTypes) : Len(q) <= Window =>
        \A p \in Prefixes(q) : p \in Seq(MessageTypes) /\ Len(p) <= Window
  <2> SUFFICES ASSUME NEW q \in Seq(MessageTypes), NEW p \in Prefixes(q), Len(q) <= Window
               PROVE  p \in Seq(MessageTypes) /\ Len(p) <= Window
    OBVIOUS
  <2>1. p \in Seq(MessageTypes) /\ Len(p) \in Nat /\ Len(q) \in Nat /\ Len(p) <= Len(q)
    BY PrefixFacts
  <2> QED
    BY <1>1, <2>1
<1>3. ASSUME NEW q \in Seq(MessageTypes), Len(q) <= Window, q # <<>>
      PROVE  Tail(q) \in Seq(MessageTypes) /\ Len(Tail(q)) <= Window
  <2>1. /\ Tail(q) \in Seq(MessageTypes) /\ Len(q) \in Nat /\ Len(q) >= 1
        /\ Len(Tail(q)) = Len(q) - 1
    BY <1>3, QueueFacts
  <2> QED
    BY <1>1, <1>3, <2>1
<1>4. ASSUME NEW q \in Seq(MessageTypes), Len(q) < Window, NEW m \in MessageTypes
      PROVE  Append(q, m) \in Seq(MessageTypes) /\ Len(Append(q, m)) <= Window
  <2>1. /\ Append(q, m) \in Seq(MessageTypes) /\ Len(q) \in Nat
        /\ Len(Append(q, m)) = Len(q) + 1
    BY AppendFacts
  <2> QED
    BY <1>1, <1>4, <2>1
<1>5. <<>> \in Seq(MessageTypes) /\ Len(<<>>) <= Window
  BY <1>1
<1>6. CASE ArchiverStep \/ ArchiveFault \/ OpenFifo
  BY <1>1, <1>6, ArchiverOutside DEF net
<1>7. CASE SenderStep \/ SenderFault
  <2>1. SenderSends \/ SenderReads \/ SenderAnnounces \/ SenderReturns
    BY <1>7, SenderMoves
  <2>2. CASE SenderSends
    BY <1>1, <1>4, <2>2 DEF SenderSends, FromSender
  <2>3. CASE SenderReads \/ SenderAnnounces
    BY <1>1, <2>3 DEF SenderReads, SenderAnnounces, net
  <2>4. CASE SenderReturns
    BY <1>1, <1>2, <1>5, <2>4 DEF SenderReturns
  <2> QED
    BY <2>1, <2>2, <2>3, <2>4
<1>8. CASE ReceiverStep \/ ReceiverFault
  <2>1. Checksum(rTmp) \in MessageTypes
    BY DEF TypeOK, MessageTypes, Checksum
  <2>2. up' = up \/ up' = FALSE
    BY <1>8 DEF ReceiverStep, ReceiverFault, ReceiveStart, ReceiveEOF, ReceiveChunk,
       ReceiveComplete, ReceiveChecksum, Receive, ReceiverEnds, SendSum, UnpackHeader, UnpackByte,
       UnpackEnd, ReceiverLinkError, net
  <2>3. toR' \in Seq(MessageTypes) /\ Len(toR') <= Window
    BY <1>1, <1>3, <1>5, <1>8, ReceiverMoves
  <2>4. toS' \in Seq(MessageTypes) /\ Len(toS') <= Window
    BY <1>1, <1>2, <1>4, <1>8, <2>1, ReceiverMoves
  <2> QED
    BY <1>1, <2>2, <2>3, <2>4
<1>9. CASE LinkLoss
  BY <1>1, <1>2, <1>9 DEF LinkLoss
<1>10. CASE Connect
  BY <1>5, <1>10 DEF Connect
<1>11. CASE \E e \in Entries, n \in Sizes \cup {Gone} : Edit(e, n)
  BY <1>1, <1>11 DEF Edit, net
<1>12. CASE UNCHANGED vars
  BY <1>1, <1>12 DEF vars, net
<1> QED
  BY <1>6, <1>7, <1>8, <1>9, <1>10, <1>11, <1>12 DEF Next

\* The tree, the bounds and the parts a step leaves alone.
TreeTypes ==
  /\ kind \in Kinds /\ Place \in Places
  /\ size \in [Entries -> Sizes \cup {Gone}]

ArchiverTypes ==
  /\ aPc \in {"off", "visit", "open", "copy", "close", "done"}
  /\ aAt \in Nat \ {0} /\ aList \subseteq Entries /\ aPos \in Nat /\ aNeed \in Nat
  /\ archiveErr \in BOOLEAN
  /\ pipe \in Seq(Items) /\ Len(pipe) <= 1 /\ pipeEnd \in {"open", "eof", "error"}

SenderTypes ==
  /\ sPc \in Finished \cup {"start", "stream", "send", "complete", "checksum", "verdict"}
  /\ hand \in Seq(Items) /\ sHash \in Seq(Items)

ReceiverTypes ==
  /\ rPc \in Finished \cup {"wait", "recv", "sum", "send_sum", "unpack"}
  /\ rTmp \in Seq(Items) /\ xAt \in Nat /\ xNeed \in Nat
  /\ out \in [Entries -> Nat \cup {Gone}]

BoundTypes == faults \in 0 .. MaxFaults /\ edits \in 0 .. MaxEdits

\* The steps of the goroutine keep its types.
LEMMA ArchiverTyped ==
  ASSUME TypeOK, Archiving, ArchiverStep \/ ArchiveFault \/ OpenFifo
  PROVE  ArchiverTypes'
<1>1. ArchiverTypes
  BY DEF TypeOK, ArchiverTypes
<1>2. aAt \in Nat /\ aAt + 1 \in Nat \ {0}
  BY <1>1 DEF ArchiverTypes
<1>3. ASSUME NEW x \in Items, Write(x)
      PROVE  pipe' \in Seq(Items) /\ Len(pipe') <= 1
  <2>1. pipe' = <<x>>
    BY <1>3 DEF Write
  <2> QED
    BY <2>1
<1>4. ASSUME ArchiveFails, pipeEnd' = pipeEnd
      PROVE  ArchiverTypes'
  BY <1>1, <1>4 DEF ArchiveFails, ArchiverTypes
<1>5. CASE Visit
  <2>1. CASE Present(aAt) /\ aNeed = 0
    <3>1. aAt \in Entries
      BY <1>5, TreeFacts, EntryFacts DEF Visit, CanVisit
    <3>2. LstatSize(aAt) \in Nat /\ Header(aAt, LstatSize(aAt)) \in Items
      BY <2>1, <3>1, TreeFacts, ItemFacts
    <3>3. /\ WriteHeader /\ pipeEnd' = pipeEnd
          /\ pipe' \in Seq(Items) /\ Len(pipe') <= 1
      BY <1>3, <1>5, <2>1, <3>2 DEF Visit, WriteHeader
    <3>4. aList' \subseteq Entries
      BY <1>1, <3>3 DEF WriteHeader, List, ArchiverTypes
    <3> QED
      BY <1>1, <1>2, <3>2, <3>3, <3>4 DEF WriteHeader, ArchiverTypes
  <2>2. CASE ~(Present(aAt) /\ aNeed = 0)
    BY <1>4, <1>5, <2>2 DEF Visit
  <2> QED
    BY <2>1, <2>2
<1>6. CASE VisitNext
  BY <1>1, <1>2, <1>6 DEF VisitNext, ArchiverTypes
<1>7. CASE Open \/ OpenFifo
  BY <1>1, <1>4, <1>7 DEF Open, OpenFifo, Opened, ArchiverTypes
<1>8. CASE CopyIn
  <2>1. CASE aNeed = 0
    BY <1>4, <1>8, <2>1 DEF CopyIn
  <2>2. CASE aNeed # 0
    <3>1. aAt \in Entries
      BY <1>8 DEF CopyIn, Archiving, Walked, Inside
    <3>2. Byte(aAt) \in Items
      BY <3>1, ItemFacts
    <3>3. aNeed - 1 \in Nat /\ aPos + 1 \in Nat
      BY <1>1, <2>2 DEF ArchiverTypes
    <3> QED
      BY <1>1, <1>3, <1>8, <2>2, <3>2, <3>3 DEF CopyIn, ArchiverTypes
  <2> QED
    BY <2>1, <2>2
<1>9. CASE CopyInEnd
  BY <1>1, <1>2, <1>9 DEF CopyInEnd, ArchiverTypes
<1>10. CASE CloseArchive
  BY <1>1, <1>10 DEF CloseArchive, ArchiverTypes
<1>11. CASE ArchiveFault
  BY <1>4, <1>11 DEF ArchiveFault
<1> QED
  BY <1>5, <1>6, <1>7, <1>8, <1>9, <1>10, <1>11 DEF ArchiverStep

\* The steps of the sender keep its types and the goroutine's.
LEMMA SenderTyped ==
  ASSUME TypeOK, Archiving, SenderStep \/ SenderFault
  PROVE  ArchiverTypes' /\ SenderTypes'
<1>1. ArchiverTypes /\ SenderTypes
  BY DEF TypeOK, ArchiverTypes, SenderTypes
<1>2. <<>> \in Seq(Items) /\ Len(<<>>) <= 1
  OBVIOUS
<1>3. CASE SendStart
  BY <1>1, <1>3 DEF SendStart, ArchiverTypes, SenderTypes
<1>4. CASE ReadPipe
  BY <1>1, <1>2, <1>4, WrittenFacts DEF ReadPipe, archiver, ArchiverTypes, SenderTypes
<1>5. CASE SendChunk \/ SendComplete \/ SendChecksum
  BY <1>1, <1>2, <1>5 DEF SendChunk, SendComplete, SendChecksum, ArchiverUnchanged, archiver,
     ArchiverTypes, SenderTypes
<1>6. ASSUME NEW result \in {"ok", "failed"}, SenderEnds(result)
      PROVE  ArchiverTypes' /\ SenderTypes'
  BY <1>1, <1>2, <1>6 DEF SenderEnds, ArchiverTypes, SenderTypes, Finished
<1>7. CASE ReadEnd
  BY <1>1, <1>6, <1>7 DEF ReadEnd, ArchiverUnchanged, archiver, ArchiverTypes, SenderTypes
<1>8. CASE SenderVerdict
  BY <1>6, <1>8 DEF SenderVerdict
<1>9. CASE SenderLinkError \/ SenderFault
  BY <1>6, <1>9 DEF SenderLinkError, SenderFault
<1> QED
  BY <1>3, <1>4, <1>5, <1>7, <1>8, <1>9 DEF SenderStep

\* The steps of the receiver keep its types.
LEMMA ReceiverTyped ==
  ASSUME TypeOK, Announced, Verified, Unpacking, ReceiverStep \/ ReceiverFault
  PROVE  ReceiverTypes'
<1>1. ReceiverTypes /\ toR \in Seq(MessageTypes)
  BY DEF TypeOK, ReceiverTypes
<1>2. rPc' \in Finished \cup {"wait", "recv", "sum", "send_sum", "unpack"}
  BY <1>1 DEF ReceiverStep, ReceiverFault, ReceiveStart, ReceiveEOF, ReceiveChunk,
     ReceiveComplete, ReceiveChecksum, Receive, ReceiverEnds, SendSum, UnpackHeader, UnpackByte,
     UnpackEnd, ReceiverLinkError, net, Finished, ReceiverTypes
<1>3. CASE ReceiveChunk
  <2>1. Head(toR) \in MessageTypes /\ Head(toR).type = "file_chunk"
    BY <1>1, <1>3, QueueFacts DEF ReceiveChunk
  <2>2. Head(toR).chunk \in Seq(Items)
    BY <2>1 DEF MessageTypes, Start, Complete
  <2>3. rTmp' \in Seq(Items)
    <3>1. rTmp \in Seq(Items) /\ rTmp \o Head(toR).chunk \in Seq(Items)
      BY <1>1, <2>2 DEF ReceiverTypes
    <3> QED
      BY <1>3, <3>1 DEF ReceiveChunk
  <2> QED
    BY <1>1, <1>2, <1>3, <2>3 DEF ReceiveChunk, ReceiverTypes
<1>4. CASE UnpackHeader
  <2> DEFINE x == rTmp[xAt]
  <2>1. /\ rPc = "unpack" /\ xNeed = 0 /\ xAt <= Len(rTmp) /\ rTmp' = rTmp
        /\ \/ xAt' = xAt /\ xNeed' = xNeed /\ out' = out
           \/ /\ xAt' = xAt + 1
              /\ \/ xNeed' = xNeed /\ out' = out
                 \/ xNeed' = x.size /\ out' = [out EXCEPT ![x.entry] = 0]
    BY <1>4 DEF UnpackHeader, OpenOut
  <2>2. xAt \in Headers(sHash) /\ rTmp = sHash /\ sHash \in Seq(Items)
    BY <2>1, HeaderNext DEF TypeOK
  <2>3. x.size \in Nat /\ x.entry \in Entries
    BY <2>2, HeaderFacts
  <2> HIDE DEF x
  <2>4. xNeed' \in Nat /\ xAt' \in Nat
    BY <1>1, <2>1, <2>3 DEF ReceiverTypes
  <2>5. out' \in [Entries -> Nat \cup {Gone}]
    BY <1>1, <2>1, <2>3 DEF ReceiverTypes
  <2> QED
    BY <1>1, <1>2, <2>1, <2>4, <2>5 DEF ReceiverTypes
<1>5. CASE UnpackByte
  <2> DEFINE e == rTmp[xAt].entry
  <2>1. /\ xNeed > 0 /\ rTmp' = rTmp
        /\ \/ xAt' = xAt /\ xNeed' = xNeed /\ out' = out
           \/ /\ xAt <= Len(rTmp) /\ xAt' = xAt + 1 /\ xNeed' = xNeed - 1
              /\ out' = [out EXCEPT ![e] = @ + 1]
    BY <1>5 DEF UnpackByte
  <2> HIDE DEF e
  <2>2. xAt' \in Nat /\ xNeed' \in Nat
    BY <1>1, <2>1 DEF ReceiverTypes
  <2>3. out' \in [Entries -> Nat \cup {Gone}]
    <3>1. \A a \in Entries : out[a] + 1 \in Nat
      BY <1>1 DEF ReceiverTypes, Gone
    <3>2. out \in [Entries -> Nat \cup {Gone}]
      BY <1>1 DEF ReceiverTypes
    <3>3. \A a \in Entries : [out EXCEPT ![a] = @ + 1] \in [Entries -> Nat \cup {Gone}]
      BY <3>1, <3>2
    <3>4. \A a : a \notin Entries => [out EXCEPT ![a] = @ + 1] = out
      BY <3>2
    <3> QED
      BY <2>1, <3>2, <3>3, <3>4
  <2> QED
    BY <1>1, <1>2, <2>1, <2>2, <2>3 DEF ReceiverTypes
<1>6. CASE ~(ReceiveChunk \/ UnpackHeader \/ UnpackByte)
  <2>1. UNCHANGED <<rTmp, xAt, xNeed, out>>
    BY <1>6 DEF ReceiverStep, ReceiverFault, ReceiveStart, ReceiveEOF, ReceiveComplete,
       ReceiveChecksum, SendSum, UnpackEnd, ReceiverLinkError
  <2> QED
    BY <1>1, <1>2, <2>1 DEF ReceiverTypes
<1> QED
  BY <1>3, <1>4, <1>5, <1>6

\* Every step keeps the types.
LEMMA TypesNext ==
  ASSUME TypeOK, Archiving, Announced, Verified, Unpacking, [Next]_vars
  PROVE  TypeOK'
<1> DEFINE NetTyped == /\ up \in BOOLEAN
                       /\ toR \in Seq(MessageTypes) /\ toS \in Seq(MessageTypes)
                       /\ Len(toR) <= Window /\ Len(toS) <= Window
<1>1. TreeTypes /\ ArchiverTypes /\ SenderTypes /\ ReceiverTypes /\ BoundTypes
  BY DEF TypeOK, TreeTypes, ArchiverTypes, SenderTypes, ReceiverTypes, BoundTypes
<1>2. NetTyped'
  BY NetTypes
<1> HIDE DEF NetTyped
<1>3. tree' = tree => TreeTypes'
  BY <1>1 DEF tree, TreeTypes, Place
<1>4. archiver' = archiver /\ pipe' = pipe /\ pipeEnd' = pipeEnd => ArchiverTypes'
  BY <1>1 DEF archiver, ArchiverTypes
<1>5. sender' = sender => SenderTypes'
  BY <1>1 DEF sender, SenderTypes
<1>6. receiver' = receiver => ReceiverTypes'
  BY <1>1 DEF receiver, ReceiverTypes
<1>7. BoundTypes'
  <2>1. bounds' = bounds => BoundTypes'
    BY <1>1 DEF bounds, BoundTypes
  <2>2. Fault => BoundTypes'
    BY <1>1, BoundsAssumption DEF Fault, BoundTypes
  <2>3. ArchiverStep \/ OpenFifo => bounds' = bounds
    BY DEF ArchiverStep, Visit, VisitNext, Open, OpenFifo, Opened, CopyIn, CopyInEnd, CloseArchive
  <2>4. SenderStep => bounds' = bounds
    BY DEF SenderStep, SendStart, ReadPipe, SendChunk, ReadEnd, SendComplete, SendChecksum,
       SenderVerdict, SenderLinkError, SenderOnly
  <2>5. ReceiverStep => bounds' = bounds
    BY DEF ReceiverStep, ReceiveStart, ReceiveEOF, ReceiveChunk, ReceiveComplete,
       ReceiveChecksum, SendSum, UnpackHeader, UnpackByte, UnpackEnd, ReceiverLinkError,
       ReceiverOnly
  <2>6. ArchiveFault \/ SenderFault \/ ReceiverFault \/ LinkLoss => Fault
    BY DEF ArchiveFault, SenderFault, ReceiverFault, LinkLoss
  <2>7. Connect \/ UNCHANGED vars => bounds' = bounds
    BY DEF Connect, vars
  <2>8. (\E e \in Entries, n \in Sizes \cup {Gone} : Edit(e, n)) => BoundTypes'
    BY <1>1, BoundsAssumption DEF Edit, BoundTypes
  <2> QED
    BY <2>1, <2>2, <2>3, <2>4, <2>5, <2>6, <2>7, <2>8 DEF Next
<1>8. TreeTypes' /\ ArchiverTypes' /\ SenderTypes' /\ ReceiverTypes'
  <2>1. CASE ArchiverStep \/ ArchiveFault \/ OpenFifo
    BY <1>3, <1>5, <1>6, <2>1, ArchiverOutside, ArchiverTyped
  <2>2. CASE SenderStep \/ SenderFault
    BY <1>3, <1>6, <2>2, SenderMoves, SenderTyped
  <2>3. CASE ReceiverStep \/ ReceiverFault
    BY <1>3, <1>4, <1>5, <2>3, ReceiverOutside, ReceiverTyped
  <2>4. CASE LinkLoss
    BY <1>3, <1>4, <1>5, <1>6, <2>4 DEF LinkLoss
  <2>5. CASE Connect
    <3>1. <<>> \in Seq(Items) /\ Len(<<>>) <= 1
      OBVIOUS
    <3>2. ArchiverTypes'
      <4>1. /\ aAt' = 1 /\ aList' = {} /\ aPos' = 0 /\ aNeed' = 0 /\ archiveErr' = FALSE
            /\ pipe' = <<>> /\ pipeEnd' = "open" /\ aPc' = aPc
        BY <2>5 DEF Connect
      <4>2. aPc' \in {"off", "visit", "open", "copy", "close", "done"}
        BY <1>1, <4>1 DEF ArchiverTypes
      <4>3. pipe' \in Seq(Items) /\ Len(pipe') <= 1
        BY <3>1, <4>1
      <4>4. aAt' \in Nat \ {0} /\ aPos' \in Nat /\ aNeed' \in Nat
        BY <4>1
      <4>5. aList' \subseteq Entries /\ archiveErr' \in BOOLEAN
        BY <4>1
      <4>6. pipeEnd' \in {"open", "eof", "error"}
        BY <4>1
      <4> QED
        BY <4>2, <4>3, <4>4, <4>5, <4>6 DEF ArchiverTypes
    <3>3. SenderTypes'
      BY <1>1, <2>5, <3>1 DEF Connect, SenderTypes
    <3>4. ReceiverTypes'
      BY <1>1, <2>5, <3>1 DEF Connect, ReceiverTypes
    <3> QED
      BY <1>3, <2>5, <3>2, <3>3, <3>4 DEF Connect
  <2>6. CASE \E e \in Entries, n \in Sizes \cup {Gone} : Edit(e, n)
    BY <1>1, <1>4, <1>5, <1>6, <2>6 DEF Edit, TreeTypes, Place
  <2>7. CASE UNCHANGED vars
    BY <1>3, <1>4, <1>5, <1>6, <2>7 DEF vars
  <2> QED
    BY <2>1, <2>2, <2>3, <2>4, <2>5, <2>6, <2>7 DEF Next
<1> QED
  BY <1>2, <1>7, <1>8 DEF TypeOK, NetTyped, TreeTypes, ArchiverTypes, SenderTypes, ReceiverTypes,
     BoundTypes

-----------------------------------------------------------------------------
(* Messages, and the file the receiver makes of them.                      *)

\* What the sender has hashed stays at its place when it hashes more.
LEMMA StreamGrows ==
  ASSUME TypeOK, SenderReads
  PROVE  /\ Len(sHash) \in Nat /\ Len(sHash') = Len(sHash) + 1
         /\ \A i \in 1 .. Len(sHash) : sHash'[i] = sHash[i]
<1>1. pipe[1] \in Items /\ sHash \in Seq(Items)
  BY SingleFacts DEF TypeOK, SenderReads
<1>2. sHash' = Append(sHash, pipe[1])
  BY DEF SenderReads, Written
<1> QED
  BY <1>1, <1>2, AppendFacts

\* A message that is received or lost leaves the others as they were.
LEMMA MessagesShrink ==
  ASSUME TypeOK, Messages, sHash' = sHash, sPc \in AfterSum => sPc' \in AfterSum,
         \/ toR' = toR \/ toR' = <<>> \/ toR' \in Prefixes(toR)
         \/ toR # <<>> /\ toR' = Tail(toR)
  PROVE  Messages'
<1> SUFFICES ASSUME NEW k \in 1 .. Len(toR')
             PROVE  /\ toR'[k].type = "file_chunk" =>
                         toR'[k].index < Len(sHash) /\ toR'[k].chunk = <<sHash[toR'[k].index + 1]>>
                    /\ toR'[k].type = "file_checksum" =>
                         toR'[k].checksum = sHash /\ k = Len(toR') /\ sPc \in AfterSum
  BY DEF Messages
<1>1. toR \in Seq(MessageTypes) /\ Len(toR) \in Nat
  BY QueueFacts DEF TypeOK
<1>2. CASE toR' = toR
  BY <1>2 DEF Messages
<1>3. CASE toR' = <<>>
  <2>1. Len(toR') = 0
    BY <1>3
  <2> QED
    BY <2>1
<1>4. CASE toR' \in Prefixes(toR)
  <2>1. /\ Len(toR') \in Nat /\ Len(toR') <= Len(toR)
        /\ \A i \in 1 .. Len(toR') : toR'[i] = toR[i]
    BY <1>1, <1>4, PrefixFacts
  <2>2. k \in 1 .. Len(toR) /\ toR'[k] = toR[k] /\ (k = Len(toR) => k = Len(toR'))
    BY <1>1, <2>1
  <2> QED
    BY <2>2 DEF Messages
<1>5. CASE toR # <<>> /\ toR' = Tail(toR)
  <2>1. /\ Len(toR') = Len(toR) - 1 /\ Len(toR) >= 1
        /\ \A i \in 1 .. Len(toR') : toR'[i] = toR[i + 1]
    BY <1>1, <1>5, QueueFacts
  <2>2. k + 1 \in 1 .. Len(toR) /\ toR'[k] = toR[k + 1] /\ (k + 1 = Len(toR) => k = Len(toR'))
    BY <1>1, <2>1
  <2> QED
    BY <2>2 DEF Messages
<1> QED
  BY <1>2, <1>3, <1>4, <1>5

\* Every step keeps the messages in step with the stream.
LEMMA MessagesNext ==
  ASSUME TypeOK, Archiving, Messages, [Next]_vars
  PROVE  Messages'
<1>1. toR \in Seq(MessageTypes) /\ Len(toR) \in Nat /\ sHash \in Seq(Items) /\ Len(sHash) \in Nat
  BY QueueFacts DEF TypeOK
<1>2. CASE SenderSends
  <2>1. sPc \notin AfterSum /\ sHash' = sHash
    BY <1>2 DEF SenderSends, Sending, AfterSum
  <2>2. CASE toR' = toR
    BY <2>1, <2>2, MessagesShrink
  <2>3. CASE toR' # toR
    <3>1. PICK m : FromSender(m) /\ toR' = Append(toR, m)
      BY <1>2, <2>3 DEF SenderSends
    <3>2. /\ Len(toR') = Len(toR) + 1 /\ toR'[Len(toR) + 1] = m
          /\ \A i \in 1 .. Len(toR) : toR'[i] = toR[i]
      BY <1>1, <3>1, AppendFacts DEF FromSender
    <3> SUFFICES ASSUME NEW k \in 1 .. Len(toR')
                 PROVE  /\ toR'[k].type = "file_chunk" =>
                             /\ toR'[k].index < Len(sHash)
                             /\ toR'[k].chunk = <<sHash[toR'[k].index + 1]>>
                        /\ toR'[k].type = "file_checksum" =>
                             toR'[k].checksum = sHash /\ k = Len(toR') /\ sPc' \in AfterSum
      BY <2>1 DEF Messages
    <3>3. CASE k = Len(toR) + 1
      <4>1. ASSUME m.type = "file_chunk"
            PROVE  m.index < Len(sHash) /\ m.chunk = <<sHash[m.index + 1]>>
        <5>1. m.index = Len(sHash) - 1 /\ sHash # <<>> /\ m.chunk = <<sHash[Len(sHash)]>>
          BY <3>1, <4>1 DEF FromSender, Archiving
        <5>2. Len(sHash) >= 1 /\ Len(sHash) - 1 < Len(sHash) /\ Len(sHash) - 1 + 1 = Len(sHash)
          BY <1>1, <5>1, QueueFacts
        <5> QED
          BY <5>1, <5>2
      <4>2. ASSUME m.type = "file_checksum"
            PROVE  m.checksum = sHash /\ sPc' \in AfterSum
        BY <1>2, <3>1, <4>2 DEF FromSender, SenderSends
      <4>3. toR'[k] = m /\ k = Len(toR')
        BY <3>2, <3>3
      <4> QED
        BY <4>1, <4>2, <4>3
    <3>4. CASE k # Len(toR) + 1
      <4>1. k \in 1 .. Len(toR) /\ toR'[k] = toR[k]
        BY <1>1, <3>2, <3>4
      <4> QED
        BY <2>1, <4>1 DEF Messages
    <3> QED
      BY <3>3, <3>4
  <2> QED
    BY <2>2, <2>3
<1>3. CASE SenderReads
  <2>1. /\ toR' = toR /\ sPc \notin AfterSum
        /\ Len(sHash') = Len(sHash) + 1
        /\ \A i \in 1 .. Len(sHash) : sHash'[i] = sHash[i]
    BY <1>3, StreamGrows DEF SenderReads, net, AfterSum
  <2> SUFFICES ASSUME NEW k \in 1 .. Len(toR)
               PROVE  /\ toR[k].type = "file_chunk" =>
                           /\ toR[k].index < Len(sHash')
                           /\ toR[k].chunk = <<sHash'[toR[k].index + 1]>>
                      /\ toR[k].type # "file_checksum"
    BY <2>1 DEF Messages
  <2>2. toR[k].type # "file_checksum"
    BY <2>1 DEF Messages
  <2>3. ASSUME toR[k].type = "file_chunk"
        PROVE  toR[k].index < Len(sHash') /\ toR[k].chunk = <<sHash'[toR[k].index + 1]>>
    <3>1. toR[k].index < Len(sHash) /\ toR[k].chunk = <<sHash[toR[k].index + 1]>>
      BY <2>3 DEF Messages
    <3>2. toR[k].index \in Nat
      <4>1. toR[k] \in MessageTypes
        BY <1>1, QueueFacts
      <4> QED
        BY <2>3, <4>1 DEF MessageTypes, Start, Complete
    <3>3. \A n, l \in Nat : n < l => n < l + 1 /\ n + 1 \in 1 .. l
      OBVIOUS
    <3>4. toR[k].index < Len(sHash) + 1 /\ toR[k].index + 1 \in 1 .. Len(sHash)
      BY <1>1, <3>1, <3>2, <3>3, Zenon
    <3> QED
      BY <2>1, <3>1, <3>4
  <2> QED
    BY <2>2, <2>3
<1>4. CASE SenderAnnounces
  BY <1>4, MessagesShrink DEF SenderAnnounces, net, AfterSum
<1>5. CASE SenderReturns
  BY <1>5, MessagesShrink DEF SenderReturns, AfterSum
<1>6. CASE ArchiverStep \/ ArchiveFault \/ OpenFifo
  BY <1>6, ArchiverOutside, MessagesShrink DEF sender, net
<1>7. CASE ReceiverStep \/ ReceiverFault
  BY <1>7, ReceiverOutside, ReceiverMoves, MessagesShrink DEF sender
<1>8. CASE LinkLoss
  BY <1>8, MessagesShrink DEF LinkLoss, sender
<1>9. CASE Connect
  BY <1>9 DEF Connect, Messages
<1>10. CASE \E e \in Entries, n \in Sizes \cup {Gone} : Edit(e, n)
  BY <1>10, MessagesShrink DEF Edit, net, sender
<1>11. CASE UNCHANGED vars
  BY <1>11, MessagesShrink DEF vars, net, sender
<1> QED
  BY <1>2, <1>3, <1>4, <1>5, <1>6, <1>7, <1>8, <1>9, <1>10, <1>11, SenderMoves DEF Next

\* A chunk goes to the end of the temp file only if it is the next one.
LEMMA BegunNext ==
  ASSUME TypeOK, Archiving, Messages, Begun, [Next]_vars
  PROVE  Begun'
<1>1. /\ sHash \in Seq(Items) /\ Len(sHash) \in Nat /\ rTmp \in Seq(Items) /\ Len(rTmp) \in Nat
      /\ toR \in Seq(MessageTypes)
  BY QueueFacts DEF TypeOK
<1>2. sHash' = sHash /\ rTmp' = rTmp => Begun'
  BY DEF Begun
<1>3. CASE SenderStep \/ SenderFault
  <2>1. rTmp' = rTmp /\ (SenderSends \/ SenderReads \/ SenderAnnounces \/ SenderReturns)
    BY <1>3, SenderMoves DEF receiver
  <2>2. CASE SenderReads
    <3>1. /\ Len(sHash') = Len(sHash) + 1
          /\ \A i \in 1 .. Len(sHash) : sHash'[i] = sHash[i]
      BY <2>2, StreamGrows
    <3>2. Len(rTmp) <= Len(sHash) /\ \A i \in 1 .. Len(rTmp) : rTmp[i] = sHash[i]
      BY DEF Begun
    <3>3. Len(rTmp) <= Len(sHash') /\ \A i \in 1 .. Len(rTmp) : i \in 1 .. Len(sHash)
      BY <1>1, <3>1, <3>2
    <3> QED
      BY <2>1, <3>1, <3>2, <3>3 DEF Begun
  <2>3. CASE SenderSends \/ SenderAnnounces \/ SenderReturns
    BY <1>2, <2>1, <2>3 DEF SenderSends, SenderAnnounces, SenderReturns
  <2> QED
    BY <2>1, <2>2, <2>3
<1>4. CASE ReceiveChunk
  <2> DEFINE m == Head(toR)
  <2>1. sHash' = sHash
    BY <1>4 DEF ReceiveChunk, ReceiverOnly, sender
  <2>2. CASE m.index = Len(rTmp)
    <3>1. m = toR[1] /\ 1 \in 1 .. Len(toR) /\ m.type = "file_chunk" /\ rTmp' = rTmp \o m.chunk
      BY <1>1, <1>4, <2>2, QueueFacts DEF ReceiveChunk
    <3> HIDE DEF m
    <3>2. Len(rTmp) < Len(sHash) /\ m.chunk = <<sHash[Len(rTmp) + 1]>>
      BY <2>2, <3>1 DEF Messages
    <3>3. Len(rTmp) + 1 \in 1 .. Len(sHash)
      BY <1>1, <3>2
    <3>4. sHash[Len(rTmp) + 1] \in Items
      BY <1>1, <3>3, QueueFacts
    <3>5. /\ Len(rTmp') = Len(rTmp) + 1 /\ rTmp'[Len(rTmp) + 1] = sHash[Len(rTmp) + 1]
          /\ \A i \in 1 .. Len(rTmp) : rTmp'[i] = rTmp[i]
      BY <1>1, <3>1, <3>2, <3>4, AppendFacts
    <3>6. Len(rTmp') <= Len(sHash)
      BY <1>1, <3>2, <3>5
    <3>7. ASSUME NEW i \in 1 .. Len(rTmp')
          PROVE  rTmp'[i] = sHash[i]
      <4>1. i = Len(rTmp) + 1 \/ i \in 1 .. Len(rTmp)
        BY <1>1, <3>5
      <4> QED
        BY <3>5, <4>1 DEF Begun
    <3> QED
      BY <2>1, <3>6, <3>7 DEF Begun
  <2>3. CASE m.index # Len(rTmp)
    BY <1>2, <1>4, <2>1, <2>3 DEF ReceiveChunk
  <2> QED
    BY <2>2, <2>3
<1>5. CASE (ReceiverStep \/ ReceiverFault) /\ ~ReceiveChunk
  <2>1. rTmp' = rTmp
    BY <1>5 DEF ReceiverStep, ReceiverFault, ReceiveStart, ReceiveEOF, ReceiveComplete,
       ReceiveChecksum, SendSum, UnpackHeader, UnpackByte, UnpackEnd, ReceiverLinkError
  <2> QED
    BY <1>2, <1>5, <2>1, ReceiverOutside DEF sender
<1>6. CASE ArchiverStep \/ ArchiveFault \/ OpenFifo
  BY <1>2, <1>6, ArchiverOutside DEF sender, receiver
<1>7. CASE LinkLoss
  BY <1>2, <1>7 DEF LinkLoss, sender, receiver
<1>8. CASE Connect
  <2>1. rTmp' = <<>> /\ sHash' = <<>> /\ Len(<<>>) <= Len(<<>>) /\ 1 .. Len(<<>>) = {}
    BY <1>8 DEF Connect
  <2> QED
    BY <2>1 DEF Begun
<1>9. CASE \E e \in Entries, n \in Sizes \cup {Gone} : Edit(e, n)
  BY <1>2, <1>9 DEF Edit, sender, receiver
<1>10. CASE UNCHANGED vars
  BY <1>2, <1>10 DEF vars, sender, receiver
<1> QED
  BY <1>3, <1>4, <1>5, <1>6, <1>7, <1>8, <1>9, <1>10 DEF Next

-----------------------------------------------------------------------------
(* From the announcement to the end of unpacking.                          *)

\* A finished archive stays one.
LEMMA WholeSame ==
  ASSUME Whole, kind' = kind, size' = size, edits' = edits,
         UNCHANGED <<aList, archiveErr, pipe, pipeEnd, sHash>>
  PROVE  Whole'
  BY ArchiveSame DEF Whole, Archive

\* A checksum that is still to be received was there before.
LEMMA ChecksumWasThere ==
  ASSUME TypeOK,
         \/ toR' = toR \/ toR' = <<>> \/ toR' \in Prefixes(toR)
         \/ toR # <<>> /\ toR' = Tail(toR),
         NEW k \in 1 .. Len(toR'), toR'[k].type = "file_checksum"
  PROVE  \E j \in 1 .. Len(toR) : toR[j].type = "file_checksum"
<1>1. toR \in Seq(MessageTypes) /\ Len(toR) \in Nat
  BY QueueFacts DEF TypeOK
<1>2. CASE toR' = toR
  BY <1>2
<1>3. CASE toR' = <<>>
  BY <1>3
<1>4. CASE toR' \in Prefixes(toR)
  <2>1. /\ Len(toR') \in Nat /\ Len(toR') <= Len(toR)
        /\ \A i \in 1 .. Len(toR') : toR'[i] = toR[i]
    BY <1>1, <1>4, PrefixFacts
  <2>2. k \in 1 .. Len(toR) /\ toR'[k] = toR[k]
    BY <1>1, <2>1
  <2> QED
    BY <2>2
<1>5. CASE toR # <<>> /\ toR' = Tail(toR)
  <2>1. /\ Len(toR') = Len(toR) - 1 /\ Len(toR) >= 1
        /\ \A i \in 1 .. Len(toR') : toR'[i] = toR[i + 1]
    BY <1>1, <1>5, QueueFacts
  <2>2. k + 1 \in 1 .. Len(toR) /\ toR'[k] = toR[k + 1]
    BY <1>1, <2>1
  <2> QED
    BY <2>2
<1> QED
  BY <1>2, <1>3, <1>4, <1>5

\* What the receiver does next to a checksum it takes.
LEMMA ChecksumTaken ==
  ASSUME TypeOK, Messages, ReceiveChecksum, rPc' # "failed"
  PROVE  /\ rPc = "sum" /\ rPc' = "send_sum" /\ rTmp' = rTmp /\ rTmp = sHash /\ toR' = <<>>
         /\ sPc \in AfterSum /\ \E k \in 1 .. Len(toR) : toR[k].type = "file_checksum"
<1>1. toR \in Seq(MessageTypes)
  BY DEF TypeOK
<1>2. /\ rPc = "sum" /\ toR # <<>> /\ Head(toR) = Checksum(rTmp) /\ toR' = Tail(toR)
      /\ rPc' = "send_sum" /\ rTmp' = rTmp
  BY DEF ReceiveChecksum, Receive, ReceiverEnds
<1>3. /\ Head(toR) = toR[1] /\ 1 \in 1 .. Len(toR) /\ Len(toR) \in Nat
      /\ Tail(toR) \in Seq(MessageTypes) /\ Len(Tail(toR)) = Len(toR) - 1
  BY <1>1, <1>2, QueueFacts
<1>4. toR[1].type = "file_checksum" /\ toR[1].checksum = rTmp
  BY <1>2, <1>3 DEF Checksum
<1>5. rTmp = sHash /\ Len(toR) = 1 /\ sPc \in AfterSum
  BY <1>3, <1>4 DEF Messages
<1>6. Tail(toR) = <<>>
  BY <1>3, <1>5, QueueFacts
<1> QED
  BY <1>2, <1>3, <1>4, <1>5, <1>6

\* Unpacking begins when the checksum is sent back, and only there.
LEMMA ReceiverStates ==
  ASSUME ReceiverStep \/ ReceiverFault
  PROVE  /\ rPc' = "send_sum" => rPc' = rPc \/ ReceiveChecksum
         /\ rPc' = "unpack" => rPc = "unpack" \/ SendSum
         /\ rPc' \in {"recv", "sum"} => rPc \in {"wait", "recv", "sum"} /\ toR # <<>>
         /\ rPc' = "wait" => UnpackEnd
         /\ rPc' = "ok" => ReceiveEOF
         /\ rPc # "unpack" => UNCHANGED <<xAt, xNeed, out>>
         /\ rPc # "recv" => rTmp' = rTmp
<1>1. CASE ReceiveStart \/ ReceiveEOF \/ ReceiveChunk \/ ReceiveComplete \/ ReceiveChecksum
  BY <1>1 DEF ReceiveStart, ReceiveEOF, ReceiveChunk, ReceiveComplete, ReceiveChecksum, Receive,
     ReceiverEnds
<1>2. CASE SendSum \/ UnpackEnd \/ ReceiverLinkError
  BY <1>2 DEF SendSum, UnpackEnd, ReceiverLinkError, ReceiverEnds
<1>3. CASE UnpackHeader \/ UnpackByte
  BY <1>3 DEF UnpackHeader, UnpackByte, ReceiverEnds
<1>4. CASE ReceiverFault
  BY <1>4 DEF ReceiverFault, ReceiverEnds
<1> QED
  BY <1>1, <1>2, <1>3, <1>4 DEF ReceiverStep

\* The goroutine has ended well when the sender announces the archive.
LEMMA AnnouncedFirst ==
  ASSUME TypeOK, Archiving, SenderAnnounces
  PROVE  Whole
<1>1. /\ sPc = "stream" /\ pipeEnd = "eof" /\ ~archiveErr
  BY DEF SenderAnnounces
<1>2. aPc # "off"
  BY <1>1 DEF Archiving, Finished
<1>3. aPc = "done" /\ pipe = <<>>
  BY <1>1, <1>2 DEF Archiving
<1>4. Archive(sHash) /\ Walked(sHash)
  BY <1>2, <1>3, ArchivingFacts, WrittenFacts
<1>5. aAt \in Nat \ {0} /\ aAt \notin Entries /\ aList \subseteq Entries
  BY <1>1, <1>3, <1>4, TreeFacts DEF Walked
<1>6. \A e \in {1} \cup aList : e < aAt
  BY <1>5, EntryFacts
<1>7. \A e \in {1} \cup aList : Holds(sHash, e)
  BY <1>1, <1>4, <1>6 DEF Walked
<1>8. sHash # <<>>
  <2>1. Holds(sHash, 1)
    BY <1>7
  <2>2. Headers(<<>>) = {}
    BY DEF Headers
  <2> QED
    BY <2>1, <2>2 DEF Holds
<1>9. edits = 0 => aList = Entries
  BY <1>4, <1>8 DEF Walked
<1> QED
  BY <1>1, <1>3, <1>4, <1>7, <1>9 DEF Whole

\* Every step keeps what is announced whole.
LEMMA AnnouncedNext ==
  ASSUME TypeOK, Archiving, Messages, Announced, [Next]_vars
  PROVE  Announced'
<1>1. CASE ArchiverStep \/ ArchiveFault \/ OpenFifo
  <2>1. ~Claimed
    BY <1>1, ArchiverOutside DEF Announced
  <2>2. ~Claimed'
    BY <1>1, <2>1, ArchiverOutside DEF Claimed, sender, receiver, net
  <2> QED
    BY <2>2 DEF Announced
<1>2. CASE SenderStep \/ SenderFault
  <2>1. UNCHANGED <<tree, receiver>> /\ edits' = edits
    BY <1>2, SenderMoves
  <2>2. CASE SenderSends
    <3> SUFFICES ASSUME Claimed' PROVE Whole'
      BY DEF Announced
    <3>1. Claimed
      <4>1. CASE toR' = toR
        BY <2>1, <2>2, <4>1 DEF SenderSends, Sending, AfterSum, Claimed, receiver, Finished
      <4>2. CASE toR' # toR
        <5>1. PICK m : FromSender(m) /\ toR' = Append(toR, m)
          BY <2>2, <4>2 DEF SenderSends
        <5>2. /\ Len(toR) \in Nat /\ Len(toR') = Len(toR) + 1 /\ toR'[Len(toR) + 1] = m
              /\ \A i \in 1 .. Len(toR) : toR'[i] = toR[i]
          BY <5>1, AppendFacts DEF FromSender, TypeOK
        <5>3. CASE \E k \in 1 .. Len(toR') : toR'[k].type = "file_checksum"
          <6>1. PICK k \in 1 .. Len(toR') : toR'[k].type = "file_checksum"
            BY <5>3
          <6>2. CASE k = Len(toR) + 1
            BY <5>1, <5>2, <6>1, <6>2 DEF FromSender, Claimed
          <6>3. CASE k # Len(toR) + 1
            <7>1. k \in 1 .. Len(toR) /\ toR'[k] = toR[k]
              BY <5>2, <6>3
            <7> QED
              BY <6>1, <7>1 DEF Claimed
          <6> QED
            BY <6>2, <6>3
        <5>4. CASE ~ \E k \in 1 .. Len(toR') : toR'[k].type = "file_checksum"
          BY <2>1, <2>2, <5>4 DEF SenderSends, Sending, AfterSum, Claimed, receiver, Finished
        <5> QED
          BY <5>3, <5>4
      <4> QED
        BY <4>1, <4>2
    <3> QED
      BY <2>1, <2>2, <3>1, WholeSame DEF Announced, SenderSends, tree
  <2>3. CASE SenderReads
    <3>1. ~Claimed
      BY <2>3 DEF SenderReads, Announced, Whole
    <3>2. ~Claimed'
      BY <2>1, <2>3, <3>1 DEF SenderReads, Claimed, receiver, net
    <3> QED
      BY <3>2 DEF Announced
  <2>4. CASE SenderAnnounces
    BY <2>1, <2>4, AnnouncedFirst, WholeSame DEF SenderAnnounces, Announced, tree, archiver
  <2>5. CASE SenderReturns
    <3> SUFFICES ASSUME Claimed' PROVE Whole'
      BY DEF Announced
    <3>1. Claimed
      <4>1. CASE sPc' = "ok" \/ rPc' \in {"send_sum", "unpack"}
        BY <2>1, <2>5, <4>1 DEF SenderReturns, Claimed, receiver
      <4>2. CASE \E k \in 1 .. Len(toR') : toR'[k].type = "file_checksum"
        BY <2>5, <4>2, ChecksumWasThere DEF SenderReturns, Claimed
      <4> QED
        BY <2>5, <4>1, <4>2 DEF SenderReturns, Claimed
    <3>2. Whole
      BY <3>1 DEF Announced
    <3> QED
      BY <2>1, <2>5, <3>2, WholeSame DEF SenderReturns, Whole, tree
  <2> QED
    BY <1>2, <2>2, <2>3, <2>4, <2>5, SenderMoves
<1>3. CASE ReceiverStep \/ ReceiverFault
  <2>1. UNCHANGED <<tree, archiver, pipe, pipeEnd, sender>> /\ edits' = edits
    BY <1>3, ReceiverOutside
  <2> SUFFICES ASSUME Claimed' PROVE Whole'
    BY DEF Announced
  <2>7. Claimed
    <3>2. CASE sPc' \in {"complete", "checksum", "verdict", "ok"}
      BY <2>1, <3>2 DEF sender, Claimed
    <3>3. CASE \E k \in 1 .. Len(toR') : toR'[k].type = "file_checksum"
      BY <1>3, <3>3, ReceiverMoves, ChecksumWasThere DEF Claimed
    <3>4. CASE rPc' = "send_sum"
      BY <1>3, <3>4, ReceiverStates, ChecksumTaken DEF Claimed
    <3>5. CASE rPc' = "unpack"
      BY <1>3, <3>5, ReceiverStates DEF Claimed, SendSum
    <3>6. CASE toS' # <<>>
      <4>1. toS \in Seq(MessageTypes)
        BY DEF TypeOK
      <4>2. toS' \in Prefixes(toS) => toS # <<>>
        BY <3>6, <4>1, PrefixFacts
      <4> QED
        BY <1>3, <3>6, <4>2, ReceiverMoves DEF Claimed
    <3> QED
      BY <3>2, <3>3, <3>4, <3>5, <3>6 DEF Claimed
  <2> QED
    BY <2>1, <2>7, WholeSame DEF Announced, tree, archiver, sender
<1>4. CASE LinkLoss
  <2>1. /\ UNCHANGED <<tree, archiver, pipe, pipeEnd, sender, receiver>> /\ edits' = edits
        /\ toR' \in Prefixes(toR) /\ toS' \in Prefixes(toS)
    BY <1>4 DEF LinkLoss, Fault
  <2> SUFFICES ASSUME Claimed' PROVE Whole'
    BY DEF Announced
  <2>2. toS' # <<>> => toS # <<>>
    BY <2>1, PrefixFacts DEF TypeOK
  <2>4. Claimed
    <3>1. CASE \E k \in 1 .. Len(toR') : toR'[k].type = "file_checksum"
      BY <2>1, <3>1, ChecksumWasThere DEF Claimed
    <3> QED
      BY <2>1, <2>2, <3>1 DEF Claimed, sender, receiver
  <2> QED
    BY <2>1, <2>4, WholeSame DEF Announced, tree, archiver, sender
<1>5. CASE Connect
  BY <1>5 DEF Connect, Announced, Claimed
<1>6. CASE \E e \in Entries, n \in Sizes \cup {Gone} : Edit(e, n)
  <2>1. /\ UNCHANGED <<kind, archiver, pipe, pipeEnd, sender, receiver, net>>
        /\ edits' = edits + 1 /\ edits \in Nat
    BY <1>6, BoundsAssumption DEF Edit, TypeOK
  <2>2. edits' # 0
    BY <2>1
  <2>3. Claimed' = Claimed
    BY <2>1 DEF Claimed, sender, receiver, net
  <2>4. Whole => Whole'
    BY <2>1, <2>2 DEF Whole, Archive, archiver, sender
  <2> QED
    BY <2>3, <2>4 DEF Announced
<1>7. CASE UNCHANGED vars
  <2>1. Claimed' = Claimed
    BY <1>7 DEF vars, Claimed, sender, receiver, net
  <2> QED
    BY <1>7, <2>1, WholeSame DEF Announced, vars, tree, archiver, sender, bounds
<1> QED
  BY <1>1, <1>2, <1>3, <1>4, <1>5, <1>6, <1>7 DEF Next

\* Once the checksum is sent the sender only returns.
LEMMA SenderAfter ==
  ASSUME TypeOK, Archiving, sPc \in AfterSum, toR = <<>>, SenderStep \/ SenderFault
  PROVE  /\ SenderReturns /\ sPc' \in AfterSum /\ toR' = <<>> /\ sHash' = sHash
         /\ UNCHANGED <<tree, receiver>> /\ edits' = edits
         /\ faults \in Nat /\ (faults' = faults \/ faults' = faults + 1)
<1>1. /\ SenderReturns /\ UNCHANGED <<tree, receiver>> /\ edits' = edits
      /\ faults \in Nat /\ (faults' = faults \/ faults' = faults + 1)
  <2>1. /\ UNCHANGED <<tree, receiver>> /\ edits' = edits
        /\ faults \in Nat /\ (faults' = faults \/ faults' = faults + 1)
        /\ SenderSends \/ SenderReads \/ SenderAnnounces \/ SenderReturns
    BY SenderMoves
  <2>2. ~SenderSends /\ ~SenderReads /\ ~SenderAnnounces
    BY DEF SenderSends, SenderReads, SenderAnnounces, Sending, AfterSum
  <2> QED
    BY <2>1, <2>2
<1>2. toR' = <<>>
  BY <1>1, PrefixFacts DEF SenderReturns, TypeOK
<1> QED
  BY <1>1, <1>2 DEF SenderReturns, AfterSum

\* The steps of the others leave the receiver's states.
LEMMA Others ==
  ASSUME TypeOK, Archiving, [Next]_vars, ~(SenderStep \/ SenderFault),
         ~(ReceiverStep \/ ReceiverFault), ~Connect
  PROVE  /\ UNCHANGED <<kind, root, readOnly, top, taken, sender, receiver>>
         /\ faults \in Nat /\ (faults' = faults \/ faults' = faults + 1)
         /\ toR = <<>> => toR' = <<>>
         /\ toS = <<>> => toS' = <<>>
<1>1. faults \in Nat
  BY BoundsAssumption DEF TypeOK
<1>2. CASE ArchiverStep \/ ArchiveFault \/ OpenFifo
  BY <1>2, ArchiverOutside DEF tree, net
<1>3. CASE LinkLoss
  <2>1. /\ toR \in Seq(MessageTypes) /\ toS \in Seq(MessageTypes)
        /\ toR' \in Prefixes(toR) /\ toS' \in Prefixes(toS)
    BY <1>3 DEF LinkLoss, TypeOK
  <2>2. (toR = <<>> => toR' = <<>>) /\ (toS = <<>> => toS' = <<>>)
    BY <2>1, PrefixFacts
  <2> QED
    BY <1>1, <1>3, <2>1, <2>2 DEF LinkLoss, Fault, tree
<1>4. CASE \E e \in Entries, n \in Sizes \cup {Gone} : Edit(e, n)
  BY <1>1, <1>4 DEF Edit, net
<1>5. CASE UNCHANGED vars
  BY <1>1, <1>5 DEF vars, tree, net, bounds
<1> QED
  BY <1>2, <1>3, <1>4, <1>5 DEF Next

\* The receiver unpacks what it has verified against all the sender has hashed.
LEMMA VerifiedNext ==
  ASSUME TypeOK, Archiving, Messages, Verified, [Next]_vars
  PROVE  Verified'
<1>1. CASE SenderStep \/ SenderFault
  <2> SUFFICES ASSUME rPc' \in {"send_sum", "unpack"}
               PROVE  rTmp' = sHash' /\ toR' = <<>> /\ sPc' \in AfterSum
    BY DEF Verified
  <2>1. rPc' = rPc /\ rTmp' = rTmp
    BY <1>1, SenderMoves DEF receiver
  <2> QED
    BY <1>1, <2>1, SenderAfter DEF Verified
<1>2. CASE ReceiverStep \/ ReceiverFault
  <2> SUFFICES ASSUME rPc' \in {"send_sum", "unpack"}
               PROVE  rTmp' = sHash' /\ toR' = <<>> /\ sPc' \in AfterSum
    BY DEF Verified
  <2>1. sHash' = sHash /\ sPc' = sPc
    BY <1>2, ReceiverOutside DEF sender
  <2>2. CASE ReceiveChecksum
    BY <2>1, <2>2, ChecksumTaken
  <2>3. CASE ~ReceiveChecksum
    <3>1. rPc \in {"send_sum", "unpack"}
      BY <1>2, <2>3, ReceiverStates DEF SendSum
    <3>2. rTmp' = rTmp
      BY <1>2, <3>1, ReceiverStates
    <3>3. rTmp = sHash /\ toR = <<>> /\ sPc \in AfterSum
      BY <3>1 DEF Verified
    <3>4. toR' = <<>>
      BY <1>2, <3>3, ReceiverMoves
    <3> QED
      BY <2>1, <3>2, <3>3, <3>4
  <2> QED
    BY <2>2, <2>3
<1>3. CASE Connect
  BY <1>3 DEF Connect, Verified
<1>4. CASE ~(SenderStep \/ SenderFault \/ ReceiverStep \/ ReceiverFault \/ Connect)
  BY <1>4, Others DEF Verified, sender, receiver
<1> QED
  BY <1>1, <1>2, <1>3, <1>4

\* No session is unpacked twice.
LEMMA FreshNext ==
  ASSUME TypeOK, Archiving, Verified, Fresh, [Next]_vars
  PROVE  Fresh'
<1>1. CASE SenderStep \/ SenderFault
  <2>1. rPc' = rPc /\ xAt' = xAt /\ xNeed' = xNeed
    BY <1>1, SenderMoves DEF receiver
  <2>2. toR = <<>> /\ sPc \in AfterSum => toR' = <<>> /\ sPc' \in AfterSum
    BY <1>1, SenderAfter
  <2> QED
    BY <2>1, <2>2 DEF Fresh
<1>2. CASE ReceiverStep \/ ReceiverFault
  <2>1. sPc' = sPc
    BY <1>2, ReceiverOutside DEF sender
  <2>2. ASSUME rPc' \in {"recv", "sum", "send_sum"}
        PROVE  xAt' = 1 /\ xNeed' = 0
    <3>1. rPc # "unpack" /\ xAt = 1 /\ xNeed = 0
      BY <1>2, <2>2, ReceiverStates DEF Fresh, ReceiveChecksum, Receive
    <3> QED
      BY <1>2, <3>1, ReceiverStates
  <2>3. ASSUME rPc' = "wait"
        PROVE  toR' = <<>> /\ sPc \in AfterSum
    <3>1. UnpackEnd
      BY <1>2, <2>3, ReceiverStates
    <3> QED
      BY <3>1 DEF UnpackEnd, net, Verified
  <2> QED
    BY <2>1, <2>2, <2>3 DEF Fresh
<1>3. CASE Connect
  BY <1>3 DEF Connect, Fresh
<1>4. CASE ~(SenderStep \/ SenderFault \/ ReceiverStep \/ ReceiverFault \/ Connect)
  BY <1>4, Others DEF Fresh, sender, receiver
<1> QED
  BY <1>1, <1>2, <1>3, <1>4

-----------------------------------------------------------------------------
(* Unpacking.                                                              *)

\* A header is unpacked: its file is empty, and what came before is complete.
LEMMA HeaderUnpacked ==
  ASSUME TypeOK, Announced, Verified, Unpacking, rPc = "unpack", xNeed = 0, xAt <= Len(rTmp),
         NEW e, e = rTmp[xAt].entry, NEW n, NEW o,
         \/ kind[e] = "file" /\ n = rTmp[xAt].size /\ o = [out EXCEPT ![e] = 0]
         \/ kind[e] # "file" /\ n = 0 /\ o = out
  PROVE  UnpackedTo(xAt + 1, n, o)
<1>1. /\ rTmp = sHash /\ Whole /\ Len(sHash) \in Nat /\ sHash \in Seq(Items)
      /\ xAt \in Headers(sHash) /\ xAt \in Nat /\ xAt >= 1
  BY HeaderNext DEF TypeOK
<1>2. e \in Entries /\ sHash[xAt].size \in Nat /\ e = sHash[xAt].entry
      /\ EndOf(sHash, xAt) = xAt + sHash[xAt].size
  BY <1>1, HeaderFacts
<1>3. n = sHash[xAt].size
  <2>1. Archive(sHash)
    BY <1>1 DEF Whole
  <2> QED
    BY <1>1, <1>2, <2>1 DEF Archive
<1>4. out \in [Entries -> Nat \cup {Gone}]
  BY DEF TypeOK
<1>5. xAt + 1 >= 1 /\ xAt + 1 <= Len(sHash) + 1 /\ xAt + 1 # 1
  BY <1>1
<1>6. xAt < xAt + 1 /\ EndOf(sHash, xAt) = xAt + 1 - 1 + n
  BY <1>1, <1>2, <1>3
<1>7. ASSUME NEW i \in Headers(sHash), i < xAt + 1
      PROVE  /\ EndOf(sHash, i) < xAt + 1 \/ EndOf(sHash, i) = xAt + 1 - 1 + n
             /\ kind[sHash[i].entry] = "file" =>
                  o[sHash[i].entry] =
                    IF EndOf(sHash, i) < xAt + 1 THEN sHash[i].size ELSE xAt + 1 - 1 - i
  <2>1. /\ i \in Nat /\ sHash[i].entry \in Entries /\ sHash[i].size \in Nat
        /\ EndOf(sHash, i) \in Nat /\ EndOf(sHash, i) = i + sHash[i].size
    BY <1>1, HeaderFacts
  <2>2. CASE i = xAt
    <3>1. kind[e] = "file" => o[e] = 0
      BY <1>2, <1>4
    <3>2. \A a, z \in Nat : (a + z < a + 1 => z = 0) /\ a + 1 - 1 - a = 0
      OBVIOUS
    <3>3. (EndOf(sHash, xAt) < xAt + 1 => sHash[xAt].size = 0) /\ xAt + 1 - 1 - xAt = 0
      BY <1>1, <1>2, <3>2, Zenon
    <3> QED
      BY <1>2, <1>6, <2>2, <3>1, <3>3
  <2>3. CASE i # xAt
    <3>1. i < xAt
      BY <1>1, <1>7, <2>1, <2>3
    <3>2. EndOf(sHash, i) < xAt \/ EndOf(sHash, i) = xAt - 1
      BY <1>1, <3>1 DEF Unpacking, UnpackedTo
    <3>3. EndOf(sHash, i) < xAt /\ EndOf(sHash, i) < xAt + 1
      BY <1>1, <2>1, <3>2
    <3>4. kind[sHash[i].entry] = "file" => out[sHash[i].entry] = sHash[i].size
      BY <3>1, <3>3 DEF Unpacking, UnpackedTo
    <3>5. sHash[i].entry # e
      BY <1>1, <1>2, <2>3 DEF Whole, Archive
    <3>6. o[sHash[i].entry] = out[sHash[i].entry]
      BY <1>4, <2>1, <3>5
    <3> QED
      BY <3>3, <3>4, <3>6
  <2> QED
    BY <2>2, <2>3
<1> QED
  BY <1>1, <1>5, <1>6, <1>7 DEF UnpackedTo

\* A byte belongs to the last header before it; nothing else changes.
LEMMA ByteUnpacked ==
  ASSUME TypeOK, Announced, Verified, Unpacking, rPc = "unpack", xNeed > 0, xAt <= Len(rTmp),
         NEW e, e = rTmp[xAt].entry, NEW o, o = [out EXCEPT ![e] = @ + 1]
  PROVE  UnpackedTo(xAt + 1, xNeed - 1, o)
<1>1. /\ rTmp = sHash /\ Whole /\ Len(sHash) \in Nat /\ sHash \in Seq(Items) /\ WellFormed(sHash)
      /\ xAt \in Nat /\ xAt >= 1 /\ xNeed \in Nat
      /\ \A i, k \in Headers(sHash) : sHash[i].entry = sHash[k].entry => i = k
      /\ \A i \in Headers(sHash) : kind[sHash[i].entry] # "file" => sHash[i].size = 0
  BY QueueFacts DEF Announced, Claimed, Verified, Unpacking, UnpackedTo, Whole, Archive, TypeOK
<1>2. xAt \in 1 .. Len(sHash) /\ xAt > 1
  BY <1>1 DEF Unpacking, UnpackedTo
<1>3. PICK c \in Headers(sHash) : c < xAt /\ EndOf(sHash, c) = xAt - 1 + xNeed
  BY <1>2 DEF Unpacking, UnpackedTo
<1>4. /\ c \in Nat /\ c \in 1 .. Len(sHash) /\ IsHeader(sHash[c])
      /\ sHash[c].entry \in Entries /\ sHash[c].size \in Nat
      /\ EndOf(sHash, c) = c + sHash[c].size
  BY <1>1, HeaderFacts
<1>5. xAt > c /\ xAt <= c + sHash[c].size /\ sHash[c].size # 0
      /\ ~(EndOf(sHash, c) < xAt)
  BY <1>1, <1>3, <1>4
<1>6. sHash[xAt] = Byte(sHash[c].entry)
  BY <1>1, <1>2, <1>5 DEF WellFormed
<1>7. e = sHash[c].entry /\ ~IsHeader(sHash[xAt])
  BY <1>1, <1>4, <1>6, ItemFacts
<1>8. kind[e] = "file"
  BY <1>1, <1>5, <1>7
<1>9. out[e] = xAt - 1 - c
  BY <1>3, <1>5, <1>7, <1>8 DEF Unpacking, UnpackedTo
<1>10. out \in [Entries -> Nat \cup {Gone}]
  BY DEF TypeOK
<1>11. o[e] = xAt - c
  BY <1>1, <1>4, <1>7, <1>9, <1>10
<1>a. PICK a \in Nat, n \in Nat : a = xAt + 1 /\ n = xNeed - 1
  BY <1>1
<1>12. /\ a >= 1 /\ a <= Len(sHash) + 1 /\ a # 1 /\ c < a
       /\ EndOf(sHash, c) = a - 1 + n
  <2>1. a >= 1 /\ a # 1 /\ a - 1 = xAt
    BY <1>1, <1>a
  <2>2. a <= Len(sHash) + 1
    BY <1>1, <1>a
  <2>3. c < a
    BY <1>1, <1>3, <1>4, <1>a
  <2>4. xAt + n = xAt - 1 + xNeed
    BY <1>1, <1>a
  <2> QED
    BY <1>3, <2>1, <2>2, <2>3, <2>4
<1>13. ASSUME NEW i \in Headers(sHash), i < a
       PROVE  /\ EndOf(sHash, i) < a \/ EndOf(sHash, i) = a - 1 + n
              /\ kind[sHash[i].entry] = "file" =>
                   o[sHash[i].entry] =
                     IF EndOf(sHash, i) < a THEN sHash[i].size ELSE a - 1 - i
  <2>1. /\ i \in Nat /\ i \in 1 .. Len(sHash) /\ IsHeader(sHash[i])
        /\ sHash[i].entry \in Entries /\ sHash[i].size \in Nat
        /\ EndOf(sHash, i) \in Nat /\ EndOf(sHash, i) = i + sHash[i].size
    BY <1>1, HeaderFacts
  <2>2. i # xAt /\ i < xAt
    BY <1>1, <1>7, <1>13, <1>a, <2>1
  <2>3. CASE i = c
    <3>1. EndOf(sHash, c) < a => sHash[c].size = xAt - c
      BY <1>1, <1>3, <1>4, <1>5, <1>a
    <3>2. a - 1 - c = xAt - c
      BY <1>1, <1>4, <1>a
    <3> QED
      BY <1>7, <1>11, <1>12, <2>3, <3>1, <3>2
  <2>4. CASE i # c
    <3>1. EndOf(sHash, i) < xAt
      <4> SUFFICES ASSUME EndOf(sHash, i) = EndOf(sHash, c)
                   PROVE  FALSE
        BY <1>3, <2>2 DEF Unpacking, UnpackedTo
      <4>1. CASE i < c
        <5>1. c <= i + sHash[i].size
          BY <1>4, <2>1, <4>1
        <5>2. sHash[c] = Byte(sHash[i].entry)
          BY <1>1, <1>4, <4>1, <5>1 DEF WellFormed
        <5> QED
          BY <1>4, <2>1, <5>2, ItemFacts
      <4>2. CASE c < i
        <5>1. i <= c + sHash[c].size
          BY <1>4, <2>1, <4>2
        <5>2. sHash[i] = Byte(sHash[c].entry)
          BY <1>1, <2>1, <4>2, <5>1 DEF WellFormed
        <5> QED
          BY <1>4, <2>1, <5>2, ItemFacts
      <4> QED
        BY <1>4, <2>1, <2>4, <4>1, <4>2
    <3>2. EndOf(sHash, i) < a
      BY <1>1, <1>a, <2>1, <3>1
    <3>3. kind[sHash[i].entry] = "file" => out[sHash[i].entry] = sHash[i].size
      BY <2>2, <3>1 DEF Unpacking, UnpackedTo
    <3>4. sHash[i].entry # e
      BY <1>1, <1>7, <2>4
    <3>5. o[sHash[i].entry] = out[sHash[i].entry]
      BY <1>10, <2>1, <3>4
    <3> QED
      BY <3>2, <3>3, <3>5
  <2> QED
    BY <2>3, <2>4
<1> QED
  <2>1. UnpackedTo(a, n, o)
    BY <1>12, <1>13 DEF UnpackedTo
  <2> QED
    BY <1>a, <2>1

\* Every step keeps what is unpacked.
LEMMA UnpackingNext ==
  ASSUME TypeOK, Archiving, Announced, Verified, Fresh, Unpacking, [Next]_vars
  PROVE  Unpacking'
<1> SUFFICES ASSUME rPc' = "unpack"
             PROVE  UnpackedTo(xAt, xNeed, out)'
  BY DEF Unpacking
<1>1. ASSUME NEW a, NEW n, NEW o, UnpackedTo(a, n, o), sHash' = sHash, kind' = kind,
             xAt' = a, xNeed' = n, out' = o
      PROVE  UnpackedTo(xAt, xNeed, out)'
  BY <1>1 DEF UnpackedTo
<1>2. CASE SenderStep \/ SenderFault
  <2>1. rPc = "unpack" /\ UNCHANGED <<xAt, xNeed, out, kind>>
    BY <1>2, SenderMoves DEF receiver, tree
  <2>2. sHash' = sHash
    BY <1>2, <2>1, SenderAfter DEF Verified
  <2> QED
    BY <1>1, <2>1, <2>2 DEF Unpacking
<1>3. CASE ReceiverStep \/ ReceiverFault
  <2>1. sHash' = sHash /\ kind' = kind
    BY <1>3, ReceiverOutside DEF sender, tree
  <2>2. CASE SendSum
    <3>1. xAt' = 1 /\ xNeed' = 0 /\ out' = out
      BY <2>2 DEF SendSum, Fresh
    <3>2. Len(sHash) \in Nat /\ sHash \in Seq(Items)
      BY QueueFacts DEF TypeOK
    <3>3. \A i \in Headers(sHash) : ~(i < 1)
      BY <3>2, HeaderFacts
    <3>4. UnpackedTo(1, 0, out)
      BY <3>2, <3>3 DEF UnpackedTo
    <3> QED
      BY <1>1, <2>1, <3>1, <3>4
  <2>3. CASE ~SendSum
    <3>1. rPc = "unpack"
      BY <1>3, <2>3, ReceiverStates
    <3>2. UnpackHeader \/ UnpackByte
      BY <1>3, <2>3, <3>1 DEF ReceiverStep, ReceiverFault, ReceiveStart, ReceiveEOF, ReceiveChunk,
         ReceiveComplete, ReceiveChecksum, Receive, ReceiverEnds, UnpackEnd, ReceiverLinkError
    <3>3. CASE UnpackHeader
      <4> PICK e : e = rTmp[xAt].entry
        OBVIOUS
      <4>1. /\ xNeed = 0 /\ xAt <= Len(rTmp) /\ xAt' = xAt + 1
            /\ \/ kind[e] = "file" /\ xNeed' = rTmp[xAt].size /\ out' = [out EXCEPT ![e] = 0]
               \/ kind[e] # "file" /\ xNeed' = 0 /\ out' = out
        BY <3>3 DEF UnpackHeader, OpenOut, ReceiverEnds
      <4>2. UnpackedTo(xAt + 1, xNeed', out')
        BY <3>1, <4>1, HeaderUnpacked
      <4> QED
        BY <1>1, <2>1, <4>1, <4>2
    <3>4. CASE UnpackByte
      <4> PICK e : e = rTmp[xAt].entry
        OBVIOUS
      <4>1. /\ xNeed > 0 /\ xAt <= Len(rTmp) /\ xAt' = xAt + 1 /\ xNeed' = xNeed - 1
            /\ out' = [out EXCEPT ![e] = @ + 1]
        BY <3>4 DEF UnpackByte, ReceiverEnds
      <4>2. UnpackedTo(xAt + 1, xNeed - 1, out')
        BY <3>1, <4>1, ByteUnpacked
      <4> QED
        BY <1>1, <2>1, <4>1, <4>2
    <3> QED
      BY <3>2, <3>3, <3>4
  <2> QED
    BY <2>2, <2>3
<1>4. CASE Connect
  BY <1>4 DEF Connect
<1>5. CASE ~(SenderStep \/ SenderFault \/ ReceiverStep \/ ReceiverFault \/ Connect)
  BY <1>1, <1>5, Others DEF Unpacking, sender, receiver
<1> QED
  BY <1>2, <1>3, <1>4, <1>5

\* When unpacking ends every file is there.
LEMMA AllUnpacked ==
  ASSUME TypeOK, Verified, Unpacking, UnpackEnd
  PROVE  Delivered
<1>1. rPc = "unpack" /\ xNeed = 0 /\ xAt > Len(rTmp)
  BY DEF UnpackEnd
<1>2. rTmp = sHash /\ sHash \in Seq(Items) /\ Len(sHash) \in Nat /\ xAt \in Nat
  BY <1>1, QueueFacts DEF Verified, TypeOK
<1> SUFFICES ASSUME NEW i \in Headers(sHash), kind[sHash[i].entry] = "file"
             PROVE  out[sHash[i].entry] = sHash[i].size
  BY DEF Delivered
<1>3. i \in 1 .. Len(sHash) /\ EndOf(sHash, i) \in Nat
  BY <1>2, HeaderFacts
<1>4. i < xAt
  BY <1>1, <1>2, <1>3
<1>5. EndOf(sHash, i) < xAt \/ EndOf(sHash, i) = xAt - 1
  BY <1>1, <1>2, <1>4 DEF Unpacking, UnpackedTo
<1>6. EndOf(sHash, i) < xAt
  BY <1>2, <1>3, <1>5
<1> QED
  BY <1>1, <1>4, <1>6 DEF Unpacking, UnpackedTo

\* An archive that ends inside a file was cut.
LEMMA CutShort ==
  ASSUME TypeOK, Verified, Unpacking, rPc = "unpack", xNeed > 0, xAt > Len(rTmp)
  PROVE  Cut(sHash)
<1>1. rTmp = sHash /\ sHash \in Seq(Items) /\ Len(sHash) \in Nat /\ xAt \in Nat /\ xNeed \in Nat
  BY QueueFacts DEF Verified, TypeOK
<1>2. xAt >= 1 /\ xAt # 1
  BY DEF Unpacking, UnpackedTo
<1>3. xAt > 1
  BY <1>1, <1>2
<1>4. PICK i \in Headers(sHash) : EndOf(sHash, i) = xAt - 1 + xNeed
  BY <1>3 DEF Unpacking, UnpackedTo
<1>5. EndOf(sHash, i) > Len(sHash)
  BY <1>1, <1>4
<1> QED
  BY <1>4, <1>5 DEF Cut, EndOf

Acked ==
  /\ rTmp = sHash /\ toR = <<>> /\ sPc \in AfterSum
  /\ rPc \in {"unpack", "wait", "ok", "failed"}
  /\ rPc \in {"wait", "ok"} => Delivered
  /\ rPc = "failed" => Reason

\* Steps that leave the receiver keep what the success of the sender says of it.
LEMMA AckedSame ==
  ASSUME Acked, UNCHANGED <<kind, root, readOnly, top, taken, sHash, receiver>>,
         faults \in Nat, faults' = faults \/ faults' = faults + 1,
         toR' = <<>>, sPc' \in AfterSum
  PROVE  Acked'
<1>1. UNCHANGED <<rPc, rTmp, xAt, xNeed, out>>
  BY DEF receiver
<1>2. faults > 0 => faults' > 0
  OBVIOUS
<1>3. Reason => Reason'
  BY <1>1, <1>2 DEF Reason, Unwritable
<1>4. Delivered => Delivered'
  BY <1>1 DEF Delivered
<1> QED
  BY <1>1, <1>3, <1>4 DEF Acked

\* The receiver fails to unpack only for a reason.
LEMMA UnpackFails ==
  ASSUME TypeOK, Verified, Unpacking, rPc = "unpack", ReceiverStep \/ ReceiverFault,
         rPc' = "failed"
  PROVE  Reason'
<1>1. /\ UNCHANGED <<kind, root, readOnly, top, taken, sHash>> /\ faults \in Nat
      /\ faults' = faults \/ faults' = faults + 1
  BY ReceiverOutside DEF tree, sender
<1>2. UnpackHeader \/ UnpackByte \/ ReceiverFault
  BY DEF ReceiverStep, ReceiveStart, ReceiveEOF, ReceiveChunk, ReceiveComplete,
     ReceiveChecksum, Receive, ReceiverEnds, SendSum, UnpackEnd, ReceiverLinkError
<1>3. CASE UnpackHeader
  <2>1. /\ UNCHANGED <<rTmp, xAt, out>> /\ xAt <= Len(rTmp)
        /\ Rejected(rTmp[xAt].entry) \/ Unwritable(rTmp[xAt].entry)
    BY <1>3 DEF UnpackHeader, net
  <2> QED
    BY <1>1, <2>1 DEF Reason, Rejected, Unwritable
<1>4. CASE UnpackByte
  <2>1. xNeed > 0 /\ ~(xAt <= Len(rTmp))
    BY <1>4 DEF UnpackByte
  <2>2. Len(rTmp) \in Nat /\ xAt \in Nat
    BY QueueFacts DEF TypeOK
  <2>3. xAt > Len(rTmp)
    BY <2>1, <2>2
  <2>4. Cut(sHash)
    BY <2>1, <2>3, CutShort
  <2> QED
    BY <1>1, <2>4 DEF Reason
<1>5. CASE ReceiverFault
  <2>1. faults' = faults + 1
    BY <1>5 DEF ReceiverFault, Fault
  <2>2. faults' > 0
    BY <1>1, <2>1
  <2> QED
    BY <2>2 DEF Reason
<1> QED
  BY <1>2, <1>3, <1>4, <1>5

\* Every step keeps what the success of the sender says of the receiver.
LEMMA AcknowledgedNext ==
  ASSUME TypeOK, Archiving, Announced, Verified, Fresh, Unpacking, Acknowledged, [Next]_vars
  PROVE  Acknowledged'
<1>1. Acknowledged <=> (toS # <<>> \/ sPc = "ok" => Acked)
  BY DEF Acknowledged, Acked
<1>2. (toS' # <<>> \/ sPc' = "ok" => Acked') => Acknowledged'
  BY DEF Acknowledged, Acked
<1> SUFFICES ASSUME toS' # <<>> \/ sPc' = "ok"
             PROVE  Acked'
  BY <1>2
<1>3. CASE SenderStep \/ SenderFault
  <2>1. SenderSends \/ SenderReads \/ SenderAnnounces \/ SenderReturns
    BY <1>3, SenderMoves
  <2>2. toS # <<>> \/ sPc = "ok"
    BY <2>1 DEF SenderSends, SenderReads, SenderAnnounces, SenderReturns, net, Finished
  <2>3. Acked
    BY <1>1, <2>2
  <2>4. sPc \in AfterSum /\ toR = <<>>
    BY <2>3 DEF Acked
  <2> QED
    BY <1>3, <2>3, <2>4, SenderAfter, AckedSame DEF tree
<1>4. CASE SendSum
  BY <1>4 DEF SendSum, Verified, Acked, ReceiverOnly, sender
<1>5. CASE (ReceiverStep \/ ReceiverFault) /\ ~SendSum
  <2>1. /\ UNCHANGED <<tree, sender>> /\ faults \in Nat
        /\ faults' = faults \/ faults' = faults + 1
    BY <1>5, ReceiverOutside
  <2>2. toS \in Seq(MessageTypes)
    BY DEF TypeOK
  <2>3. toS' \in Prefixes(toS) \/ toS' = toS
    BY <1>5 DEF ReceiverStep, ReceiverFault, ReceiveStart, ReceiveEOF, ReceiveChunk,
       ReceiveComplete, ReceiveChecksum, Receive, ReceiverEnds, UnpackHeader, UnpackByte,
       UnpackEnd, ReceiverLinkError, net
  <2>4. toS # <<>> \/ sPc = "ok"
    BY <2>1, <2>2, <2>3, PrefixFacts DEF sender
  <2>5. Acked
    BY <1>1, <2>4
  <2>6. toR' = <<>> /\ sPc' \in AfterSum /\ rTmp' = rTmp /\ sHash' = sHash
    BY <1>5, <2>1, <2>5, ReceiverMoves, ReceiverStates DEF Acked, sender
  <2>7. CASE rPc = "unpack"
    <3>1. rPc' \in {"unpack", "wait", "failed"}
      BY <1>5, <2>7 DEF ReceiverStep, ReceiverFault, ReceiveStart, ReceiveEOF, ReceiveChunk,
         ReceiveComplete, ReceiveChecksum, Receive, ReceiverEnds, UnpackHeader, UnpackByte,
         UnpackEnd, ReceiverLinkError, net
    <3>2. rPc' = "failed" => Reason'
      BY <1>5, <2>7, UnpackFails
    <3>3. ASSUME rPc' = "wait"
          PROVE  Delivered'
      <4>1. UnpackEnd
        BY <1>5, <3>3, ReceiverStates
      <4>2. out' = out /\ kind' = kind
        BY <2>1, <4>1 DEF UnpackEnd, tree
      <4> QED
        BY <2>6, <4>1, <4>2, AllUnpacked DEF Delivered
    <3> QED
      BY <2>5, <2>6, <3>1, <3>2, <3>3 DEF Acked
  <2>8. CASE rPc # "unpack"
    <3>1. rPc \in {"wait", "ok", "failed"} /\ toR = <<>>
      BY <2>5, <2>8 DEF Acked
    <3>2. /\ UNCHANGED <<xAt, xNeed, out>>
      BY <1>5, <2>8, ReceiverStates
    <3>3. ReceiveEOF \/ ReceiverFault
      BY <1>5, <3>1 DEF ReceiverStep, ReceiveStart, ReceiveChunk, ReceiveComplete,
         ReceiveChecksum, Receive, UnpackHeader, UnpackByte, UnpackEnd, ReceiverLinkError
    <3>4. CASE ReceiveEOF
      <4>1. rPc = "wait" /\ rPc' = "ok" /\ Delivered
        BY <2>5, <3>4 DEF ReceiveEOF, ReceiverEnds, Acked
      <4>2. Delivered'
        BY <2>1, <2>6, <3>2, <4>1 DEF Delivered, tree
      <4> QED
        BY <2>5, <2>6, <4>1, <4>2 DEF Acked
    <3>5. CASE ReceiverFault
      <4>1. rPc' = "failed" /\ faults' = faults + 1
        BY <3>5 DEF ReceiverFault, ReceiverEnds, Fault
      <4>2. Reason'
        <5>1. faults' > 0
          BY <2>1, <4>1
        <5> QED
          BY <5>1 DEF Reason
      <4> QED
        BY <2>5, <2>6, <4>1, <4>2 DEF Acked
    <3> QED
      BY <3>3, <3>4, <3>5
  <2> QED
    BY <2>7, <2>8
<1>6. CASE Connect
  BY <1>6 DEF Connect
<1>7. CASE ~(SenderStep \/ SenderFault \/ ReceiverStep \/ ReceiverFault \/ Connect)
  <2>1. /\ UNCHANGED <<kind, root, readOnly, top, taken, sender, receiver>>
        /\ faults \in Nat /\ (faults' = faults \/ faults' = faults + 1)
        /\ toR = <<>> => toR' = <<>>
        /\ toS = <<>> => toS' = <<>>
    BY <1>7, Others
  <2>2. Acked
    BY <1>1, <2>1 DEF sender
  <2> QED
    BY <2>1, <2>2, AckedSame DEF Acked, sender
<1> QED
  BY <1>3, <1>4, <1>5, <1>6, <1>7 DEF ReceiverStep

-----------------------------------------------------------------------------
(* The invariant, and what it shows.                                       *)

\* It holds in the initial states.
LEMMA DirInit == Init => DirInv
<1> SUFFICES ASSUME Init PROVE DirInv
  OBVIOUS
<1>1. <<>> \in Seq(Items) /\ Len(<<>>) = 0 /\ <<>> \in Seq(MessageTypes) /\ 1 .. Len(<<>>) = {}
  OBVIOUS
<1>2. TypeOK
  <2>1. Window \in Nat /\ 0 \in 0 .. MaxFaults /\ 0 \in 0 .. MaxEdits
    BY BoundsAssumption
  <2>2. /\ kind \in Kinds /\ Place \in Places
        /\ size \in [Entries -> Sizes \cup {Gone}]
    <3>1. PICK p \in Places :
            root = p.root /\ readOnly = p.readOnly /\ top = p.top /\ taken = p.taken
      BY DEF Init
    <3>2. p = [root |-> p.root, readOnly |-> p.readOnly, top |-> p.top, taken |-> p.taken]
      BY PlacesAssumption
    <3> QED
      BY <3>1, <3>2 DEF Init, Place
  <2>3. ArchiverTypes
    <3>1. /\ aPc = "off" /\ aAt = 1 /\ aList = {} /\ aPos = 0 /\ aNeed = 0 /\ archiveErr = FALSE
          /\ pipe = <<>> /\ pipeEnd = "open"
      BY DEF Init
    <3>2. pipe \in Seq(Items) /\ Len(pipe) <= 1
      BY <1>1, <3>1
    <3>3. aAt \in Nat \ {0} /\ aPos \in Nat /\ aNeed \in Nat
      BY <3>1
    <3>4. aList \subseteq Entries /\ archiveErr \in BOOLEAN
      BY <3>1
    <3> QED
      BY <3>1, <3>2, <3>3, <3>4 DEF ArchiverTypes
  <2>4. SenderTypes
    BY <1>1 DEF Init, SenderTypes, Finished
  <2>5. ReceiverTypes
    BY <1>1 DEF Init, ReceiverTypes, Finished
  <2>6. /\ up \in BOOLEAN /\ toR \in Seq(MessageTypes) /\ toS \in Seq(MessageTypes)
        /\ Len(toR) <= Window /\ Len(toS) <= Window
        /\ faults \in 0 .. MaxFaults /\ edits \in 0 .. MaxEdits
    <3>1. up = FALSE /\ toR = <<>> /\ toS = <<>> /\ faults = 0 /\ edits = 0
      BY DEF Init
    <3>2. 0 <= Window
      BY <2>1
    <3> QED
      BY <1>1, <2>1, <3>1, <3>2
  <2> QED
    BY <2>2, <2>3, <2>4, <2>5, <2>6 DEF TypeOK, ArchiverTypes, SenderTypes, ReceiverTypes
<1>3. Untouched
  <2>1. size \in [Entries -> Sizes] /\ Gone \notin Sizes
    BY SizesAssumption DEF Init, Gone
  <2> QED
    BY <2>1 DEF Untouched
<1>4. Archiving
  BY DEF Init, Archiving, Finished
<1>5. Messages /\ Announced /\ Begun
  BY <1>1 DEF Init, Messages, Announced, Claimed, Begun
<1>6. Verified /\ Fresh /\ Unpacking /\ Acknowledged
  BY DEF Init, Verified, Fresh, Unpacking, Acknowledged
<1> QED
  BY <1>2, <1>3, <1>4, <1>5, <1>6 DEF DirInv

\* Every step keeps it.
LEMMA DirNext == DirInv /\ [Next]_vars => DirInv'
<1> SUFFICES ASSUME DirInv, [Next]_vars PROVE DirInv'
  OBVIOUS
<1>1. /\ TypeOK /\ Untouched /\ Archiving /\ Messages /\ Announced
      /\ Begun /\ Verified /\ Fresh /\ Unpacking /\ Acknowledged
  BY DEF DirInv
<1>2. TypeOK'
  BY <1>1, TypesNext
<1>3. Untouched' /\ Archiving'
  BY <1>1, ArchivingNext
<1>4. Messages'
  BY <1>1, MessagesNext
<1>5. Announced'
  BY <1>1, AnnouncedNext
<1>6. Begun'
  BY <1>1, BegunNext
<1>7. Verified'
  BY <1>1, VerifiedNext
<1>8. Fresh'
  BY <1>1, FreshNext
<1>9. Unpacking'
  BY <1>1, UnpackingNext
<1>10. Acknowledged'
  BY <1>1, AcknowledgedNext
<1> QED
  BY <1>2, <1>3, <1>4, <1>5, <1>6, <1>7, <1>8, <1>9, <1>10 DEF DirInv

\* The invariant holds in every behaviour.
LEMMA DirHolds == Spec => []DirInv
<1>1. Init => DirInv
  BY DirInit
<1>2. DirInv /\ [Next]_vars => DirInv'
  BY DirNext
<1> QED
  BY <1>1, <1>2, PTL DEF Spec

\* Every variable keeps its type.
THEOREM DirectoryTypes == Spec => []TypeOK
<1>1. DirInv => TypeOK
  BY DEF DirInv
<1> QED
  BY <1>1, DirHolds, PTL

\* An archive the sender announces is finished, without an error, and holds
\* everything that was listed (p2p.go:309-345).
THEOREM AnnouncedArchives == Spec => []AnnouncedIsWhole
<1>1. DirInv => AnnouncedIsWhole
  BY DEF DirInv, Announced, Claimed, Whole, Archive, AnnouncedIsWhole
<1> QED
  BY <1>1, DirHolds, PTL

\* After the sender's success the receiver fails only after a fault, for a name or a
\* destination for which it rejects every archive, for a last file that shrank, or
\* at an entry whose place is taken (p2p.go:571, 589, 640-655).
THEOREM FailuresHaveReasons == Spec => []FailsForAReason
<1>1. DirInv => FailsForAReason
  BY DEF DirInv, Acknowledged, Reason, FailsForAReason
<1> QED
  BY <1>1, DirHolds, PTL

\* When both ends succeed the destination has every file as it was archived, and
\* as it is if nobody changed the tree (p2p.go:651-665).
THEOREM ArchivesAreDelivered == Spec => []DeliveredIsArchive
<1>1. ASSUME DirInv PROVE DeliveredIsArchive
  <2> SUFFICES ASSUME sPc = "ok", rPc = "ok"
               PROVE  /\ \A i \in Headers(sHash) :
                           kind[sHash[i].entry] = "file" => out[sHash[i].entry] = sHash[i].size
                      /\ edits = 0 => \A e \in Entries : kind[e] = "file" => out[e] = size[e]
    BY DEF DeliveredIsArchive
  <2>1. Delivered /\ Whole
    BY <1>1 DEF DirInv, Acknowledged, Announced, Claimed
  <2>2. ASSUME edits = 0, NEW e \in Entries, kind[e] = "file"
        PROVE  out[e] = size[e]
    <3>1. Holds(sHash, e)
      BY <2>1, <2>2 DEF Whole
    <3>2. PICK i \in Headers(sHash) : sHash[i].entry = e
      BY <3>1 DEF Holds
    <3>3. sHash[i].size = size[e]
      BY <2>1, <2>2, <3>2 DEF Whole, Archive
    <3> QED
      BY <2>1, <2>2, <3>2, <3>3 DEF Delivered
  <2> QED
    BY <2>1, <2>2 DEF Delivered
<1> QED
  BY <1>1, DirHolds, PTL

\* Nothing of an archive that is cut short reaches the destination: a step that
\* changes a file there follows the check against the whole (p2p.go:563-590).
THEOREM NothingPartialUnpacked == Spec => NothingPartial
<1>1. ASSUME DirInv, [Next]_vars, out' # out
      PROVE  rTmp = sHash /\ \A e \in {1} \cup aList : Holds(sHash, e)
  <2>1. /\ TypeOK /\ Archiving /\ Announced /\ Verified
    BY <1>1 DEF DirInv
  <2>2. ReceiverStep \/ ReceiverFault
    <3>1. ASSUME SenderStep \/ SenderFault
          PROVE  out' = out
      BY <2>1, <3>1, SenderMoves DEF receiver
    <3>2. Connect => out' = out
      BY DEF Connect
    <3>3. ASSUME ~(SenderStep \/ SenderFault), ~(ReceiverStep \/ ReceiverFault), ~Connect
          PROVE  out' = out
      BY <1>1, <2>1, <3>3, Others DEF receiver
    <3> QED
      BY <1>1, <3>1, <3>2, <3>3
  <2>3. rPc = "unpack"
    BY <1>1, <2>2, ReceiverStates
  <2> QED
    BY <2>1, <2>3 DEF Verified, Announced, Claimed, Whole
<1>2. DirInv /\ [Next]_vars =>
        [out' # out => rTmp = sHash /\ \A e \in {1} \cup aList : Holds(sHash, e)]_vars
  BY <1>1
<1> QED
  BY <1>2, DirHolds, PTL DEF Spec, NothingPartial
=============================================================================
