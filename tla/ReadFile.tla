------------------------------- MODULE ReadFile -------------------------------
(***************************************************************************)
(* platform_read_entire_file of src/platform_linux.c and                   *)
(* src/platform_win32.c, one system call at a time, while another process  *)
(* may write the file: on Windows an open handle keeps writers away        *)
(* (FILE_SHARE_READ), on Linux nothing does, and a read may return less    *)
(* than was asked for.                                                     *)
(*                                                                         *)
(* A byte of the file is <<the write it comes from, its place>>. A         *)
(* definition whose comment begins with "Fault" is the code with a         *)
(* plausible bug.                                                          *)
(***************************************************************************)
EXTENDS Naturals, Sequences

CONSTANTS MaxSize,       \* bound on the size of the file
          MaxWrites,     \* bound on the writes to it
          MaxRoom,       \* bound on the room in the arena
          MAX_PATH       \* elements of path_w

ASSUME ReadFileAssumption == {MaxSize, MaxWrites, MaxRoom, MAX_PATH} \subseteq Nat

VARIABLES platform,
          path_len,      \* path.len
          room,          \* bytes left in the arena
          file,          \* the bytes of the file
          writes,        \* how often it was written
          opened,        \* history: writes, when it was opened
          failed,        \* history: a system call failed
          handle,        \* is the file open?
          size,          \* st.st_size, file_size
          block,         \* bytes allocated for it; 0: there is no block
          buffer,        \* what was read into the block so far
          result,        \* what the caller gets
          pc             \* the next step, or how it ended

vars == <<platform, path_len, room, file, writes, opened, failed, handle, size, block, buffer,
          result, pc>>
given == <<platform, path_len>>
disk == <<file, writes>>
memory == <<room, size, block, buffer>>

Written(n, kept, by) == [i \in 1 .. n |-> IF i <= kept THEN file[i] ELSE <<by, i>>]

\* What the caller gets when there is no file to give.
Empty == result' = << >> /\ pc' = "done"
-----------------------------------------------------------------------------
Init ==
    /\ platform \in {"linux", "win32"}
    /\ path_len \in 1 .. MAX_PATH + 1
    /\ room \in 0 .. MaxRoom
    /\ file \in {[i \in 1 .. n |-> <<0, i>>] : n \in 0 .. MaxSize} /\ writes = 0
    /\ opened = 0 /\ failed = FALSE /\ handle = FALSE
    /\ size = 0 /\ block = 0 /\ buffer = << >> /\ result = << >>
    /\ pc = IF platform = "linux" THEN "open" ELSE "convert"

\* Another process cuts the file off somewhere, or goes on writing it there.
OtherWrites ==
    /\ writes < MaxWrites /\ pc # "done"
    /\ platform = "win32" => ~handle
    /\ \E n \in 0 .. MaxSize, kept \in 0 .. Len(file) : file' = Written(n, kept, writes + 1)
    /\ writes' = writes + 1
    /\ UNCHANGED <<given, memory, opened, failed, handle, result, pc>>

\* MultiByteToWideChar: a path that fills path_w gets its NUL behind it.
Convert ==
    /\ pc = "convert"
    /\ IF path_len > MAX_PATH THEN Empty
       ELSE /\ pc' = IF path_len = MAX_PATH THEN "path overrun" ELSE "open"
            /\ UNCHANGED result
    /\ failed' = (path_len > MAX_PATH)
    /\ UNCHANGED <<given, disk, memory, opened, handle>>

Open ==
    /\ pc = "open"
    /\ \/ handle' = TRUE /\ opened' = writes /\ pc' = "stat" /\ UNCHANGED <<failed, result>>
       \/ Empty /\ failed' = TRUE /\ UNCHANGED <<handle, opened>>
    /\ UNCHANGED <<given, disk, memory>>

\* Fault: when it fails, the file stays open.
StatLeaves ==
    /\ pc = "stat"
    /\ \/ size' = Len(file) /\ pc' = "alloc" /\ UNCHANGED <<failed, result>>
       \/ Empty /\ failed' = TRUE /\ UNCHANGED size
    /\ UNCHANGED <<given, disk, room, block, buffer, opened, handle>>

\* fstat or GetFileSizeEx.
Stat ==
    /\ pc = "stat"
    /\ \/ size' = Len(file) /\ pc' = "alloc" /\ UNCHANGED <<failed, handle, result>>
       \/ Empty /\ failed' = TRUE /\ handle' = FALSE /\ UNCHANGED size
    /\ UNCHANGED <<given, disk, room, block, buffer, opened>>

\* On Linux a NUL is put behind the bytes of the file.
Needed == IF platform = "linux" THEN size + 1 ELSE size

\* alloc refuses a block of no bytes. Without one Linux traps, Windows returns
\* an empty file.
Alloc ==
    /\ pc = "alloc"
    /\ IF 0 < Needed /\ Needed <= room
       THEN /\ block' = Needed /\ room' = room - Needed /\ pc' = "read"
            /\ UNCHANGED <<failed, handle, result>>
       ELSE /\ IF platform = "linux" THEN pc' = "trap" /\ UNCHANGED <<handle, result>>
               ELSE Empty /\ handle' = FALSE
            /\ failed' = (size > 0)
            /\ UNCHANGED <<block, room>>
    /\ UNCHANGED <<given, disk, size, buffer, opened>>

\* read returns the bytes from n places on, some of those asked for and at least
\* one if there are any.
Got(n, count) == SubSeq(file, n + 1, n + count)

\* Fault: the whole size is asked for again.
ReadSomeAgain ==
    /\ pc = "read" /\ platform = "linux" /\ Len(buffer) < size
    /\ \E count \in 1 .. size :
          /\ Len(buffer) + count <= Len(file)
          /\ buffer' = buffer \o Got(Len(buffer), count)
    /\ UNCHANGED <<given, disk, room, size, block, opened, failed, handle, result, pc>>

ReadSome ==
    /\ pc = "read" /\ platform = "linux" /\ Len(buffer) < size
    /\ \E count \in 1 .. size - Len(buffer) :
          /\ Len(buffer) + count <= Len(file)
          /\ buffer' = buffer \o Got(Len(buffer), count)
    /\ UNCHANGED <<given, disk, room, size, block, opened, failed, handle, result, pc>>

\* Fault: one read is expected to be enough.
ReadStopsAfterOne ==
    /\ pc = "read" /\ platform = "linux"
    /\ buffer # << >> \/ size = 0 \/ file = << >>
    /\ pc' = "close"
    /\ UNCHANGED <<given, disk, memory, opened, failed, handle, result>>

\* The loop ends when all was read, when the file is at its end before that, or
\* when a read fails.
ReadStops ==
    /\ pc = "read" /\ platform = "linux"
    /\ \/ Len(buffer) >= size /\ UNCHANGED failed
       \/ Len(buffer) < size /\ Len(buffer) >= Len(file) /\ UNCHANGED failed
       \/ Len(buffer) < size /\ failed' = TRUE
    /\ pc' = "close"
    /\ UNCHANGED <<given, disk, memory, opened, handle, result>>

\* ReadFile: what there is of the size asked for.
ReadAll ==
    /\ pc = "read" /\ platform = "win32"
    /\ \/ /\ buffer' = Got(0, IF size <= Len(file) THEN size ELSE Len(file))
          /\ pc' = "close" /\ UNCHANGED <<failed, handle, result>>
       \/ Empty /\ failed' = TRUE /\ handle' = FALSE /\ UNCHANGED buffer
    /\ UNCHANGED <<given, disk, room, size, block, opened>>

Close ==
    /\ pc = "close"
    /\ handle' = FALSE /\ result' = buffer /\ pc' = "done"
    /\ UNCHANGED <<given, disk, memory, opened, failed>>

Next == \/ OtherWrites \/ Convert \/ Open \/ Stat \/ Alloc \/ ReadSome \/ ReadStops \/ ReadAll
        \/ Close

Spec == Init /\ [][Next]_vars
-----------------------------------------------------------------------------
\* If no call fails, the caller gets the file as it was when it was opened,
\* however many reads it takes, or a part of it (on Linux) when it is written
\* meanwhile; and each byte always stands at its own place.
WholeFile ==
    pc = "done" =>
        /\ \A i \in DOMAIN result : result[i][2] = i
        /\ ~failed /\ writes = opened => result = file
        /\ ~failed /\ platform = "win32" => Len(result) = size

\* No byte is stored behind the block, the NUL included, even when the file
\* grows after it was measured.
WithinBlock ==
    /\ Len(buffer) <= block
    /\ pc = "close" /\ platform = "linux" => Len(buffer) <= size /\ size < block

\* Whatever fails, the file is closed when the function returns.
HandleClosed == pc = "done" => ~handle
=============================================================================
