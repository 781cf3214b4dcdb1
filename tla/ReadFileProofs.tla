---------------------------- MODULE ReadFileProofs ----------------------------
(***************************************************************************)
(* platform_read_entire_file stays within its block, closes the file and   *)
(* returns all of it, for all sizes, paths, writers and failures.          *)
(***************************************************************************)
EXTENDS ReadFile, SequenceTheorems, TLAPS

Bytes == Nat \X Nat

\* A sequence of bytes that stand at their own places.
Placed(s) == s \in Seq(Bytes) /\ \A i \in 1 .. Len(s) : s[i][2] = i

NumbersOK ==
    /\ path_len \in Nat /\ room \in Nat /\ writes \in Nat /\ opened \in Nat
    /\ size \in Nat /\ block \in Nat

FilesOK == Placed(file) /\ Placed(buffer) /\ Placed(result)

ControlOK ==
    /\ platform \in {"linux", "win32"}
    /\ failed \in BOOLEAN /\ handle \in BOOLEAN
    /\ pc \in {"convert", "open", "stat", "alloc", "read", "close", "done", "trap",
               "path overrun"}

\* Has nobody written the file since it was opened?
Untouched == writes = opened

\* The file is open from Open to Close, and on Windows nobody writes it then.
OpenedOK ==
    /\ opened <= writes
    /\ handle <=> pc \in {"stat", "alloc", "read", "close", "trap"}
    /\ platform = "win32" /\ handle => Untouched

\* The size is that of the file, as long as nobody writes it, and the block has
\* room for it.
MeasuredOK ==
    /\ pc \in {"alloc", "read", "close"} /\ Untouched => size = Len(file)
    /\ pc \in {"read", "close"} => block = Needed

\* What was read is the file's beginning, as long as nobody writes it; no more
\* than the size is ever read, and the loop ends early only for a reason.
ReadOK ==
    /\ pc \in {"convert", "open", "stat", "alloc"} => buffer = << >>
    /\ pc = "read" /\ platform = "win32" => buffer = << >>
    /\ Len(buffer) <= block
    /\ pc \in {"read", "close"} => Len(buffer) <= size
    /\ pc \in {"read", "close"} /\ Untouched => \A i \in 1 .. Len(buffer) : buffer[i] = file[i]
    /\ pc = "close" /\ ~failed /\ (Untouched \/ platform = "win32") => Len(buffer) = size

IInv == NumbersOK /\ FilesOK /\ ControlOK /\ OpenedOK /\ MeasuredOK /\ ReadOK /\ WholeFile

LEMMA EmptyPlaced == Placed(<< >>)
  BY DEF Placed

LEMMA Bounds == /\ MaxSize \in Nat /\ MaxRoom \in Nat /\ MAX_PATH \in Nat
  BY ReadFileAssumption

-----------------------------------------------------------------------------
\* What another process leaves of the file has its bytes at their places.
LEMMA WrittenPlaced ==
    ASSUME Placed(file), NEW n \in Nat, NEW kept \in 0 .. Len(file), NEW by \in Nat
    PROVE  Placed(Written(n, kept, by))
<1> DEFINE w == Written(n, kept, by)
<1>1. Len(file) \in Nat
  BY DEF Placed
<1>2. ASSUME NEW i \in 1 .. n PROVE w[i] \in Bytes /\ w[i][2] = i
  <2>1. w[i] = IF i <= kept THEN file[i] ELSE <<by, i>>
    BY DEF Written
  <2>2. CASE i <= kept
    <3>1. i \in 1 .. Len(file)
      BY <1>1, <2>2
    <3>2. file[i] \in Bytes /\ file[i][2] = i
      BY <3>1, ElementOfSeq DEF Placed
    <3> QED BY <2>1, <2>2, <3>2
  <2>3. CASE ~(i <= kept)
    BY <2>1, <2>3 DEF Bytes
  <2> QED BY <2>2, <2>3
<1>3. w \in [1 .. n -> Bytes]
  BY <1>2 DEF Written
<1>4. w \in Seq(Bytes) /\ Len(w) = n
  BY <1>3
<1> QED BY <1>2, <1>4 DEF Placed

\* What read returns are bytes of the file.
LEMMA GotBytes ==
    ASSUME Placed(file), NEW n \in Nat, NEW count \in Nat, n + count <= Len(file)
    PROVE  /\ Got(n, count) \in Seq(Bytes) /\ Len(Got(n, count)) = count
           /\ \A i \in 1 .. count : Got(n, count)[i] = file[n + i]
<1> DEFINE sub == SubSeq(file, n + 1, n + count)
<1>1. n + 1 \in Int /\ n + count \in Int /\ Len(file) \in Nat
  BY DEF Placed
<1>2. \A i \in n + 1 .. n + count : file[i] \in Bytes
  BY <1>1, ElementOfSeq DEF Placed
<1>3. /\ sub \in Seq(Bytes)
      /\ Len(sub) = IF n + 1 <= n + count THEN (n + count) - (n + 1) + 1 ELSE 0
      /\ \A i \in 1 .. (n + count) - (n + 1) + 1 : sub[i] = file[(n + 1) + i - 1]
  BY <1>1, <1>2, SubSeqProperties
<1> HIDE DEF sub
<1>4. Len(sub) = count
  BY <1>1, <1>3
<1>5. ASSUME NEW i \in 1 .. count PROVE sub[i] = file[n + i]
  <2>1. (n + 1) + i - 1 = n + i /\ i \in 1 .. (n + count) - (n + 1) + 1
    BY <1>1
  <2> QED BY <1>3, <2>1
<1> QED BY <1>3, <1>4, <1>5 DEF Got, sub

\* Appending what read returns keeps the buffer at its places, and the beginning
\* of the file if it was that.
LEMMA GotPlaced ==
    ASSUME Placed(file), Placed(buffer), NEW count \in Nat,
           Len(buffer) + count <= Len(file)
    PROVE  LET new == buffer \o Got(Len(buffer), count)
           IN  /\ Placed(new)
               /\ Len(new) = Len(buffer) + count
               /\ (\A i \in 1 .. Len(buffer) : buffer[i] = file[i])
                     => \A i \in 1 .. Len(new) : new[i] = file[i]
<1> DEFINE n == Len(buffer)
           got == Got(n, count)
           new == buffer \o got
<1>1. /\ file \in Seq(Bytes) /\ buffer \in Seq(Bytes)
      /\ n \in Nat /\ Len(file) \in Nat
      /\ \A i \in 1 .. Len(file) : file[i] \in Bytes
  BY ElementOfSeq DEF Placed
<1>2. /\ got \in Seq(Bytes) /\ Len(got) = count
      /\ \A i \in 1 .. count : got[i] = file[n + i]
  <2> HIDE DEF n
  <2> QED BY <1>1, GotBytes DEF Got, n
<1>3. /\ new \in Seq(Bytes) /\ Len(new) = n + count
      /\ \A i \in 1 .. n + count : new[i] = IF i <= n THEN buffer[i] ELSE got[i - n]
  <2> HIDE DEF got, n
  <2> QED BY <1>1, <1>2, ConcatProperties DEF n
<1>4. ASSUME NEW i \in 1 .. n + count, i > n PROVE new[i] = file[i]
  <2> HIDE DEF new, got, n
  <2>1. i - n \in 1 .. count /\ n + (i - n) = i
    BY <1>1, <1>4
  <2> QED BY <1>1, <1>2, <1>3, <1>4, <2>1
<1>5. ASSUME NEW i \in 1 .. n + count PROVE new[i][2] = i
  <2> HIDE DEF new, got
  <2>1. CASE i <= n
    BY <1>1, <1>3, <2>1 DEF Placed
  <2>2. CASE i > n
    <3>1. i \in 1 .. Len(file)
      BY <1>1
    <3> QED BY <1>4, <2>2, <3>1 DEF Placed
  <2> QED BY <1>1, <2>1, <2>2
<1> HIDE DEF new
<1>6. (\A i \in 1 .. n : buffer[i] = file[i]) => \A i \in 1 .. Len(new) : new[i] = file[i]
  BY <1>1, <1>3, <1>4
<1> QED BY <1>3, <1>5, <1>6 DEF Placed, new

-----------------------------------------------------------------------------
LEMMA InitIInv == Init => IInv
<1> SUFFICES ASSUME Init PROVE IInv
  OBVIOUS
<1>1. Placed(<< >>)
  BY DEF Placed
<1>2. Placed(file)
  <2>1. PICK n \in 0 .. MaxSize : file = [i \in 1 .. n |-> <<0, i>>]
    BY DEF Init
  <2>2. n \in Nat
    BY Bounds
  <2>3. file \in [1 .. n -> Bytes]
    BY <2>1 DEF Bytes
  <2>4. file \in Seq(Bytes) /\ Len(file) = n
    BY <2>2, <2>3
  <2> QED BY <2>1, <2>4 DEF Placed
<1>3. NumbersOK
  BY Bounds DEF Init, NumbersOK
<1>4. FilesOK
  BY <1>1, <1>2 DEF Init, FilesOK
<1>5. ControlOK
  BY DEF Init, ControlOK
<1>6. OpenedOK /\ MeasuredOK /\ ReadOK /\ WholeFile
  BY <1>3 DEF Init, OpenedOK, MeasuredOK, ReadOK, WholeFile
<1> QED BY <1>3, <1>4, <1>5, <1>6 DEF IInv

LEMMA WritesStep == IInv /\ OtherWrites => IInv'
<1> SUFFICES ASSUME IInv, OtherWrites PROVE IInv'
  OBVIOUS
<1>1. PICK n \in 0 .. MaxSize, kept \in 0 .. Len(file) : file' = Written(n, kept, writes + 1)
  BY DEF OtherWrites
<1>2. n \in Nat /\ writes \in Nat /\ opened \in Nat /\ Placed(file)
  <2>1. n \in Nat
    BY Bounds
  <2>2. writes \in Nat /\ opened \in Nat
    BY DEF IInv, NumbersOK
  <2>3. Placed(file)
    BY DEF IInv, FilesOK
  <2> QED BY <2>1, <2>2, <2>3
<1>3. Placed(file')
  <2>1. writes + 1 \in Nat
    BY <1>2
  <2> QED BY <1>1, <1>2, <2>1, WrittenPlaced DEF Written
<1>4. /\ writes' = writes + 1 /\ pc # "done"
      /\ UNCHANGED <<platform, path_len, room, size, block, buffer, opened, failed, handle,
                     result, pc>>
      /\ platform = "win32" => ~handle
  BY DEF OtherWrites, given, memory
<1>5. ~Untouched'
  BY <1>2, <1>4 DEF Untouched, IInv, OpenedOK
<1>6. NumbersOK' /\ FilesOK' /\ ControlOK'
  <2>1. NumbersOK'
    BY <1>2, <1>4 DEF IInv, NumbersOK
  <2>2. FilesOK'
    BY <1>3, <1>4 DEF IInv, FilesOK
  <2>3. ControlOK'
    BY <1>4 DEF IInv, ControlOK
  <2> QED BY <2>1, <2>2, <2>3
<1>7. OpenedOK' /\ MeasuredOK'
  BY <1>2, <1>4, <1>5 DEF IInv, OpenedOK, MeasuredOK, Needed
<1>8. ReadOK'
  BY <1>4, <1>5, <1>7 DEF IInv, ReadOK, OpenedOK
<1>9. WholeFile'
  BY <1>4 DEF WholeFile
<1> QED BY <1>6, <1>7, <1>8, <1>9 DEF IInv

\* A path too long is an error before the file is opened.
LEMMA ConvertStep == IInv /\ Convert => IInv'
<1> SUFFICES ASSUME IInv, Convert PROVE IInv'
  OBVIOUS
<1>0. /\ pc = "convert"
      /\ UNCHANGED <<platform, path_len, room, file, writes, opened, handle, size, block, buffer>>
      /\ \/ result' = << >> /\ pc' = "done" /\ failed' = TRUE
         \/ result' = result /\ pc' \in {"path overrun", "open"} /\ failed' = FALSE
  <2>1. CASE path_len > MAX_PATH
    BY <2>1 DEF Convert, Empty, given, disk, memory
  <2>2. CASE ~(path_len > MAX_PATH)
    <3>1. failed' = FALSE
      <4>1. failed' = (path_len > MAX_PATH)
        BY DEF Convert
      <4>2. (path_len > MAX_PATH) = FALSE
        BY <2>2
      <4> QED BY <4>1, <4>2
    <3>2. result' = result /\ pc' \in {"path overrun", "open"}
      BY <2>2 DEF Convert
    <3> QED BY <3>1, <3>2 DEF Convert, given, disk, memory
  <2> QED BY <2>1, <2>2
<1>1. NumbersOK'
  BY <1>0 DEF IInv, NumbersOK
<1>2. FilesOK'
  BY <1>0, EmptyPlaced DEF IInv, FilesOK
<1>3. ControlOK'
  BY <1>0 DEF IInv, ControlOK
<1>4. OpenedOK'
  BY <1>0 DEF IInv, NumbersOK, ControlOK, OpenedOK, Untouched
<1>5. MeasuredOK'
  BY <1>0 DEF IInv, OpenedOK, MeasuredOK, Untouched, Needed
<1>6. ReadOK'
  BY <1>0 DEF IInv, NumbersOK, OpenedOK, MeasuredOK, ReadOK, Untouched, Needed
<1>7. WholeFile'
  BY <1>0 DEF WholeFile
<1> QED BY <1>1, <1>2, <1>3, <1>4, <1>5, <1>6, <1>7 DEF IInv

\* Opening the file starts the watch for writers; a failure is told.
LEMMA OpenStep == IInv /\ Open => IInv'
<1> SUFFICES ASSUME IInv, Open PROVE IInv'
  OBVIOUS
<1>0. /\ pc = "open"
      /\ UNCHANGED <<platform, path_len, room, file, writes, size, block, buffer>>
      /\ \/ handle' = TRUE /\ opened' = writes /\ pc' = "stat" /\ failed' = failed /\ result' = result
         \/ result' = << >> /\ pc' = "done" /\ failed' = TRUE /\ handle' = handle /\ opened' = opened
  BY DEF Open, Empty, given, disk, memory
<1>1. NumbersOK'
  BY <1>0 DEF IInv, NumbersOK
<1>2. FilesOK'
  BY <1>0, EmptyPlaced DEF IInv, FilesOK
<1>3. ControlOK'
  BY <1>0 DEF IInv, ControlOK
<1>4. OpenedOK'
  <2>1. CASE pc' = "stat"
    BY <1>0, <2>1 DEF IInv, NumbersOK, OpenedOK, Untouched
  <2>2. CASE pc' = "done"
    BY <1>0, <2>2 DEF IInv, NumbersOK, OpenedOK, Untouched
  <2> QED BY <1>0, <2>1, <2>2
<1>5. MeasuredOK'
  BY <1>0 DEF IInv, OpenedOK, MeasuredOK, Untouched, Needed
<1>6. ReadOK'
  BY <1>0 DEF IInv, NumbersOK, OpenedOK, MeasuredOK, ReadOK, Untouched, Needed
<1>7. WholeFile'
  BY <1>0 DEF WholeFile
<1> QED BY <1>1, <1>2, <1>3, <1>4, <1>5, <1>6, <1>7 DEF IInv

\* The size is measured, or the file is closed again.
LEMMA StatStep == IInv /\ Stat => IInv'
<1> SUFFICES ASSUME IInv, Stat PROVE IInv'
  OBVIOUS
<1>0. /\ pc = "stat"
      /\ UNCHANGED <<platform, path_len, room, file, writes, block, buffer, opened>>
      /\ \/ /\ size' = Len(file) /\ Len(file) \in Nat /\ pc' = "alloc"
            /\ failed' = failed /\ handle' = handle /\ result' = result
         \/ /\ result' = << >> /\ pc' = "done" /\ failed' = TRUE /\ handle' = FALSE /\ size' = size
  BY DEF Stat, Empty, given, disk, memory, IInv, FilesOK, Placed
<1>1. NumbersOK'
  BY <1>0 DEF IInv, NumbersOK
<1>2. FilesOK'
  BY <1>0, EmptyPlaced DEF IInv, FilesOK
<1>3. ControlOK'
  BY <1>0 DEF IInv, ControlOK
<1>4. OpenedOK'
  BY <1>0 DEF IInv, NumbersOK, ControlOK, OpenedOK, Untouched
<1>5. MeasuredOK'
  BY <1>0 DEF IInv, OpenedOK, MeasuredOK, Untouched, Needed
<1>6. ReadOK'
  BY <1>0 DEF IInv, NumbersOK, OpenedOK, MeasuredOK, ReadOK, Untouched, Needed
<1>7. WholeFile'
  BY <1>0 DEF WholeFile
<1> QED BY <1>1, <1>2, <1>3, <1>4, <1>5, <1>6, <1>7 DEF IInv

\* The block has room for the bytes, and for a NUL on Linux, or there is none.
LEMMA AllocStep == IInv /\ Alloc => IInv'
<1> SUFFICES ASSUME IInv, Alloc PROVE IInv'
  OBVIOUS
<1>0. /\ pc = "alloc"
      /\ UNCHANGED <<platform, path_len, file, writes, size, buffer, opened>>
      /\ Needed \in Nat /\ Needed' = Needed
      /\ \/ /\ block' = Needed /\ room' \in Nat /\ pc' = "read"
            /\ failed' = failed /\ handle' = handle /\ result' = result
         \/ /\ platform = "linux" /\ pc' = "trap" /\ handle' = handle /\ result' = result
            /\ failed' \in BOOLEAN /\ block' = block /\ room' = room
         \/ /\ platform = "win32" /\ result' = << >> /\ pc' = "done" /\ handle' = FALSE
            /\ failed' \in BOOLEAN /\ (~failed' => size = 0)
            /\ block' = block /\ room' = room
  <2>1. size \in Nat /\ room \in Nat /\ Needed \in Nat
    BY DEF IInv, NumbersOK, Needed
  <2>2. Needed' = Needed /\ UNCHANGED <<platform, path_len, file, writes, size, buffer, opened>>
    BY DEF Alloc, Needed, given, disk
  <2>3. CASE 0 < Needed /\ Needed <= room
    <3>1. room' = room - Needed
      BY <2>3 DEF Alloc
    <3> QED BY <2>1, <2>2, <2>3, <3>1 DEF Alloc
  <2>4. CASE ~(0 < Needed /\ Needed <= room)
    <3>1. failed' \in BOOLEAN /\ (~failed' => size = 0)
      <4>1. failed' = (size > 0)
        BY <2>4 DEF Alloc
      <4>2. CASE size > 0
        BY <4>1, <4>2
      <4>3. CASE ~(size > 0)
        BY <2>1, <4>1, <4>3
      <4> QED BY <4>2, <4>3
    <3>2. block' = block /\ room' = room /\ pc = "alloc"
      BY <2>4 DEF Alloc
    <3>3. CASE platform = "linux"
      BY <2>1, <2>2, <2>4, <3>1, <3>2, <3>3 DEF Alloc
    <3>4. CASE platform = "win32"
      BY <2>1, <2>2, <2>4, <3>1, <3>2, <3>4 DEF Alloc, Empty
    <3> QED BY <3>3, <3>4 DEF IInv, ControlOK
  <2> QED BY <2>3, <2>4
<1>1. NumbersOK'
  BY <1>0 DEF IInv, NumbersOK
<1>2. FilesOK'
  BY <1>0, EmptyPlaced DEF IInv, FilesOK
<1>3. ControlOK'
  BY <1>0 DEF IInv, ControlOK
<1>4. OpenedOK'
  <2>1. CASE pc' \in {"read", "trap"}
    <3>1. handle' = handle /\ handle /\ opened' = opened /\ writes' = writes /\ platform' = platform
      BY <1>0, <2>1 DEF IInv, OpenedOK
    <3> QED BY <3>1, <2>1 DEF IInv, OpenedOK, Untouched
  <2>2. CASE pc' = "done"
    BY <1>0, <2>2 DEF IInv, OpenedOK, Untouched
  <2> QED BY <1>0, <2>1, <2>2
<1>5. MeasuredOK'
  BY <1>0 DEF IInv, OpenedOK, MeasuredOK, Untouched, Needed
<1>6. ReadOK'
  <2>1. size \in Nat /\ buffer = << >> /\ Len(buffer) = 0
    BY <1>0 DEF IInv, NumbersOK, ReadOK
  <2> QED BY <1>0, <2>1 DEF IInv, NumbersOK, ReadOK
<1>7. WholeFile'
  <2>1. CASE pc' = "done"
    <3>1. result' = << >> /\ platform = "win32" /\ (~failed' => size = 0)
      BY <1>0, <2>1
    <3>2. Untouched => size = Len(file)
      BY <1>0 DEF IInv, MeasuredOK
    <3>3. Len(file) = 0 => file = << >>
      BY EmptySeq DEF IInv, FilesOK, Placed
    <3> QED BY <1>0, <3>1, <3>2, <3>3 DEF WholeFile, Untouched
  <2>2. CASE pc' # "done"
    BY <2>2 DEF WholeFile
  <2> QED BY <2>1, <2>2
<1> QED BY <1>1, <1>2, <1>3, <1>4, <1>5, <1>6, <1>7 DEF IInv

\* On Linux a read appends some of the bytes that are missing.
LEMMA ReadSomeStep == IInv /\ ReadSome => IInv'
<1> SUFFICES ASSUME IInv, ReadSome PROVE IInv'
  OBVIOUS
<1>0. /\ pc = "read" /\ platform = "linux"
      /\ UNCHANGED <<platform, path_len, room, file, writes, size, block, opened, failed, handle,
                     result, pc>>
  BY DEF ReadSome, given, disk
<1>a. PICK count \in 1 .. size - Len(buffer) :
         Len(buffer) + count <= Len(file) /\ buffer' = buffer \o Got(Len(buffer), count)
  BY DEF ReadSome
<1>b. /\ Len(buffer) \in Nat /\ size \in Nat /\ count \in Nat /\ block = Needed
      /\ Placed(file) /\ Placed(buffer)
  <2>1. Placed(file) /\ Placed(buffer)
    BY DEF IInv, FilesOK
  <2>4. Len(buffer) \in Nat
    BY <2>1 DEF Placed
  <2>2. size \in Nat
    BY DEF IInv, NumbersOK
  <2>3. block = Needed
    BY <1>0 DEF IInv, MeasuredOK
  <2> QED BY <2>1, <2>2, <2>3, <2>4
<1>c. /\ Placed(buffer') /\ Len(buffer') = Len(buffer) + count
      /\ (\A i \in 1 .. Len(buffer) : buffer[i] = file[i])
            => \A i \in 1 .. Len(buffer') : buffer'[i] = file[i]
  BY <1>a, <1>b, GotPlaced DEF Got
<1>d. Len(buffer') <= size /\ size <= block
  <2>1. size <= block
    BY <1>b DEF Needed
  <2> QED BY <1>a, <1>b, <1>c, <2>1
<1>1. NumbersOK'
  BY <1>0 DEF IInv, NumbersOK
<1>2. FilesOK'
  BY <1>0, <1>c DEF IInv, FilesOK
<1>3. ControlOK'
  BY <1>0 DEF IInv, ControlOK
<1>4. OpenedOK'
  BY <1>0 DEF IInv, NumbersOK, ControlOK, OpenedOK, Untouched
<1>5. MeasuredOK'
  BY <1>0 DEF IInv, OpenedOK, MeasuredOK, Untouched, Needed
<1>6. ReadOK'
  <2>1. Len(buffer') \in Nat /\ block \in Nat /\ Len(buffer') <= block
    BY <1>b, <1>c, <1>d DEF IInv, NumbersOK
  <2>2. Untouched' => \A i \in 1 .. Len(buffer') : buffer'[i] = file[i]
    BY <1>0, <1>c DEF IInv, ReadOK, Untouched
  <2> QED BY <1>0, <1>d, <2>1, <2>2 DEF ReadOK
<1>7. WholeFile'
  BY <1>0 DEF WholeFile
<1> QED BY <1>1, <1>2, <1>3, <1>4, <1>5, <1>6, <1>7 DEF IInv

\* On Linux the loop ends at the size, at the end of the file, or at an error.
LEMMA ReadStopsStep == IInv /\ ReadStops => IInv'
<1> SUFFICES ASSUME IInv, ReadStops PROVE IInv'
  OBVIOUS
<1>0. /\ pc = "read" /\ platform = "linux" /\ pc' = "close"
      /\ UNCHANGED <<platform, path_len, room, file, writes, size, block, buffer, opened, handle,
                     result>>
      /\ \/ Len(buffer) >= size /\ failed' = failed
         \/ Len(buffer) < size /\ Len(buffer) >= Len(file) /\ failed' = failed
         \/ failed' = TRUE
  BY DEF ReadStops, given, disk, memory
<1>1. NumbersOK'
  BY <1>0 DEF IInv, NumbersOK
<1>2. FilesOK'
  BY <1>0, EmptyPlaced DEF IInv, FilesOK
<1>3. ControlOK'
  BY <1>0 DEF IInv, ControlOK
<1>4. OpenedOK'
  BY <1>0 DEF IInv, NumbersOK, ControlOK, OpenedOK, Untouched
<1>5. MeasuredOK'
  BY <1>0 DEF IInv, OpenedOK, MeasuredOK, Untouched, Needed
<1>6. ReadOK'
  <2>1. /\ Len(buffer) \in Nat /\ size \in Nat /\ Len(file) \in Nat /\ Len(buffer) <= size
        /\ Untouched => size = Len(file)
    <3>1. Len(buffer) \in Nat /\ Len(file) \in Nat
      BY DEF IInv, FilesOK, Placed
    <3> QED BY <1>0, <3>1 DEF IInv, NumbersOK, ReadOK, MeasuredOK
  <2>2. ~failed' /\ Untouched => Len(buffer) = size
    BY <1>0, <2>1
  <2> QED BY <1>0, <2>1, <2>2 DEF IInv, ReadOK, Untouched
<1>7. WholeFile'
  BY <1>0 DEF WholeFile
<1> QED BY <1>1, <1>2, <1>3, <1>4, <1>5, <1>6, <1>7 DEF IInv

\* On Windows one read gets all there is of the size asked for.
LEMMA ReadAllStep == IInv /\ ReadAll => IInv'
<1> SUFFICES ASSUME IInv, ReadAll PROVE IInv'
  OBVIOUS
<1>0. /\ pc = "read" /\ platform = "win32"
      /\ UNCHANGED <<platform, path_len, room, file, writes, size, block, opened>>
      /\ \/ /\ buffer' = Got(0, IF size <= Len(file) THEN size ELSE Len(file))
            /\ pc' = "close" /\ failed' = failed /\ handle' = handle /\ result' = result
         \/ result' = << >> /\ pc' = "done" /\ failed' = TRUE /\ handle' = FALSE /\ buffer' = buffer
  BY DEF ReadAll, Empty, given, disk
<1>a. /\ size \in Nat /\ size = Len(file) /\ block = size
      /\ Placed(file) /\ Placed(buffer) /\ buffer = << >> /\ Len(buffer) = 0
      /\ Untouched
  <2>1. Untouched /\ size = Len(file)
    BY <1>0 DEF IInv, ControlOK, OpenedOK, MeasuredOK
  <2>2. buffer = << >> /\ block = size
    BY <1>0 DEF IInv, ReadOK, MeasuredOK, Needed
  <2> QED BY <2>1, <2>2 DEF IInv, NumbersOK, FilesOK
<1>b. pc' = "close" =>
         /\ Placed(buffer') /\ Len(buffer') = size
         /\ \A i \in 1 .. Len(buffer') : buffer'[i] = file[i]
  <2> SUFFICES ASSUME pc' = "close"
               PROVE  /\ Placed(buffer') /\ Len(buffer') = size
                      /\ \A i \in 1 .. Len(buffer') : buffer'[i] = file[i]
    OBVIOUS
  <2>1. buffer' = Got(0, size)
    BY <1>0, <1>a
  <2>2. 0 + size <= Len(file) /\ \A i \in 1 .. size : 0 + i = i
    BY <1>a
  <2>3. /\ buffer' \in Seq(Bytes) /\ Len(buffer') = size
        /\ \A i \in 1 .. size : buffer'[i] = file[0 + i]
    BY <1>a, <2>1, <2>2, GotBytes DEF Got
  <2>4. \A i \in 1 .. size : buffer'[i] = file[i]
    BY <2>2, <2>3
  <2>5. \A i \in 1 .. size : file[i][2] = i
    BY <1>a DEF Placed
  <2> QED BY <2>3, <2>4, <2>5 DEF Placed
<1>1. NumbersOK'
  BY <1>0 DEF IInv, NumbersOK
<1>2. FilesOK'
  BY <1>0, <1>a, <1>b, EmptyPlaced DEF IInv, FilesOK
<1>3. ControlOK'
  BY <1>0 DEF IInv, ControlOK
<1>4. OpenedOK'
  BY <1>0 DEF IInv, NumbersOK, ControlOK, OpenedOK, Untouched
<1>5. MeasuredOK'
  BY <1>0 DEF IInv, OpenedOK, MeasuredOK, Untouched, Needed
<1>6. ReadOK'
  <2>1. CASE pc' = "close"
    BY <1>0, <1>a, <1>b, <2>1 DEF ReadOK, Untouched
  <2>2. CASE pc' = "done"
    <3>1. buffer' = buffer /\ block' = block
      BY <1>0, <2>2
    <3> QED BY <1>a, <2>2, <3>1 DEF ReadOK
  <2> QED BY <1>0, <2>1, <2>2
<1>7. WholeFile'
  BY <1>0 DEF WholeFile
<1> QED BY <1>1, <1>2, <1>3, <1>4, <1>5, <1>6, <1>7 DEF IInv

\* The file is closed and the caller gets what was read.
LEMMA CloseStep == IInv /\ Close => IInv'
<1> SUFFICES ASSUME IInv, Close PROVE IInv'
  OBVIOUS
<1>0. /\ pc = "close" /\ pc' = "done" /\ handle' = FALSE /\ result' = buffer
      /\ UNCHANGED <<platform, path_len, room, file, writes, size, block, buffer, opened, failed>>
  BY DEF Close, given, disk, memory
<1>1. NumbersOK'
  BY <1>0 DEF IInv, NumbersOK
<1>2. FilesOK'
  BY <1>0, EmptyPlaced DEF IInv, FilesOK
<1>3. ControlOK'
  BY <1>0 DEF IInv, ControlOK
<1>4. OpenedOK'
  BY <1>0 DEF IInv, NumbersOK, ControlOK, OpenedOK, Untouched
<1>5. MeasuredOK'
  BY <1>0 DEF IInv, OpenedOK, MeasuredOK, Untouched, Needed
<1>6. ReadOK'
  BY <1>0 DEF IInv, NumbersOK, OpenedOK, MeasuredOK, ReadOK, Untouched, Needed
<1>7. WholeFile'
  <2>1. Placed(buffer) /\ Placed(file)
    BY DEF IInv, FilesOK
  <2>2. \A i \in DOMAIN buffer : buffer[i][2] = i
    BY <2>1 DEF Placed
  <2>3. ASSUME ~failed, Untouched PROVE buffer = file
    <3>1. Len(buffer) = Len(file) /\ \A i \in 1 .. Len(buffer) : buffer[i] = file[i]
      BY <1>0, <2>3 DEF IInv, MeasuredOK, ReadOK
    <3> QED BY <2>1, <3>1, SeqEqual DEF Placed
  <2>4. ~failed /\ platform = "win32" => Len(buffer) = size
    BY <1>0 DEF IInv, ReadOK
  <2> QED BY <1>0, <2>2, <2>3, <2>4 DEF WholeFile, Untouched
<1> QED BY <1>1, <1>2, <1>3, <1>4, <1>5, <1>6, <1>7 DEF IInv

-----------------------------------------------------------------------------
LEMMA NextIInv == IInv /\ [Next]_vars => IInv'
<1> SUFFICES ASSUME IInv, [Next]_vars PROVE IInv'
  OBVIOUS
<1>1. CASE Next
  BY <1>1, WritesStep, ConvertStep, OpenStep, StatStep, AllocStep, ReadSomeStep, ReadStopsStep,
     ReadAllStep, CloseStep DEF Next
<1>2. CASE UNCHANGED vars
  <2> USE <1>2 DEF vars, given, disk, memory, IInv
  <2>1. NumbersOK' /\ FilesOK'
    BY DEF NumbersOK, FilesOK
  <2>2. ControlOK' /\ OpenedOK'
    BY DEF ControlOK, OpenedOK, Untouched
  <2>3. MeasuredOK' /\ ReadOK'
    BY DEF MeasuredOK, ReadOK, Untouched, Needed
  <2>4. WholeFile'
    BY DEF WholeFile
  <2> QED BY <2>1, <2>2, <2>3, <2>4
<1> QED BY <1>1, <1>2

LEMMA Invariance == Spec => []IInv
  BY InitIInv, NextIInv, PTL DEF Spec

\* If no system call fails, the caller gets the file as it was when it was opened,
\* in however many parts it was read; and no byte ever stands at another's place.
THEOREM FileIsWhole == Spec => []WholeFile
  BY Invariance, PTL DEF IInv

\* No read goes past the block that was allocated for the size measured before,
\* whatever another process does to the file in between.
THEOREM ReadsStayInBlock == Spec => []WithinBlock
<1>1. IInv => WithinBlock
  <2> SUFFICES ASSUME IInv PROVE WithinBlock
    OBVIOUS
  <2>1. Len(buffer) <= block
    BY DEF IInv, ReadOK
  <2>2. ASSUME pc = "close", platform = "linux" PROVE Len(buffer) <= size /\ size < block
    <3>1. Len(buffer) <= size /\ block = Needed /\ size \in Nat
      BY <2>2 DEF IInv, ReadOK, MeasuredOK, NumbersOK
    <3> QED BY <2>2, <3>1 DEF Needed
  <2> QED BY <2>1, <2>2 DEF WithinBlock
<1> QED BY <1>1, Invariance, PTL

\* Whichever system call fails, the file is closed when the function returns.
THEOREM FileIsClosed == Spec => []HandleClosed
<1>1. IInv => HandleClosed
  BY DEF IInv, OpenedOK, HandleClosed
<1> QED BY <1>1, Invariance, PTL
=============================================================================
