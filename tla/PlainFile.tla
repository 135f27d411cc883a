----------------------------- MODULE PlainFile -----------------------------
(***************************************************************************)
(* What the class PlainFile (common/src/plainfile.cpp) does by handing its *)
(* calls to the operating system: a sequence of bytes and a position that  *)
(* may lie beyond its end.  A write fills the gap up to the position with  *)
(* zeros, an append writes at the end, and a call that reports an error    *)
(* has no effect.  Truncate leaves the position alone and cuts the bytes   *)
(* or extends them with zeros (ftruncate): this is not what the interface  *)
(* says, "If new size is greater than current size then noop" (file.h:422, *)
(* cryptfile.h:366), which neither this class nor CryptFile follows.       *)
(* CryptFile is shown to implement this module.                            *)
(***************************************************************************)
EXTENDS Integers, Sequences

VARIABLES content,   \* the bytes of the file
          position,  \* where the next read or write of a random access file starts
          state,     \* "closed", or how it is open: "read", "write" or "append"
          last       \* the last call: what was asked for and the bytes it moved

plainVars == <<content, position, state, last>>

Zeros(n) == [i \in 1..n |-> 0]

\* The bytes with data written at pos, zeros in the gap before it.
Overwritten(bytes, pos, data) ==
    LET filled == IF pos > Len(bytes) THEN bytes \o Zeros(pos - Len(bytes)) ELSE bytes
        end    == pos + Len(data)
    IN  SubSeq(filled, 1, pos) \o data \o SubSeq(filled, end + 1, Len(filled))

Resized(bytes, n) ==
    IF n <= Len(bytes) THEN SubSeq(bytes, 1, n) ELSE bytes \o Zeros(n - Len(bytes))

Called(call, n, bytes) == [call |-> call, n |-> n, bytes |-> bytes]
Quiet(call) == Called(call, 0, <<>>)

PlainInit ==
    /\ content = <<>>
    /\ position = 0
    /\ state = "closed"
    /\ last = Quiet("none")

\* open() with one of the writing modes that start from an empty file.
Create ==
    /\ state = "closed"
    /\ content' = <<>>
    /\ position' = 0
    /\ state' \in {"write", "append"}
    /\ last' = Quiet("open")

\* open() of what is there; an appending file starts at the end.
Open ==
    /\ state = "closed"
    /\ state' \in {"read", "write", "append"}
    /\ position' = IF state' = "append" THEN Len(content) ELSE 0
    /\ last' = Quiet("open")
    /\ UNCHANGED content

Close ==
    /\ state # "closed"
    /\ state' = "closed"
    /\ position' = 0
    /\ last' = Quiet("close")
    /\ UNCHANGED content

Write(data) ==
    /\ state \in {"write", "append"}
    /\ content' = Overwritten(content, position, data)
    /\ position' = position + Len(data)
    /\ last' = Called("write", Len(data), data)
    /\ UNCHANGED state

Read(n) ==
    /\ state \in {"read", "write"}
    /\ LET end   == IF position + n < Len(content) THEN position + n ELSE Len(content)
           bytes == SubSeq(content, position + 1, end) IN
         /\ last' = Called("read", n, bytes)
         /\ position' = position + Len(bytes)
    /\ UNCHANGED <<content, state>>

\* The position of an appending file is its end whatever is asked for.
Seek(pos) ==
    /\ state # "closed"
    /\ position' = IF state = "append" THEN position ELSE pos
    /\ last' = Called("seek", pos, <<>>)
    /\ UNCHANGED <<content, state>>

Truncate(n) ==
    /\ state \in {"write", "append"}
    /\ content' = Resized(content, n)
    /\ last' = Called("truncate", n, <<>>)
    /\ position' = IF state = "append" THEN Len(content') ELSE position
    /\ UNCHANGED state

\* truncate() of a file that is not open, for which PlainFile reports an error
\* and CryptFile opens the file.
TruncateClosed(n) ==
    /\ state = "closed"
    /\ content' = Resized(content, n)
    /\ last' = Called("truncate", n, <<>>)
    /\ UNCHANGED <<position, state>>

\* A flush, a sync, or a call that reports an error.
NoEffect ==
    /\ last' \in {Quiet("flush"), Quiet("error")}
    /\ UNCHANGED <<content, position, state>>

\* The call of the step is the one last' tells of.
PlainNext ==
    \/ Create \/ Open \/ Close \/ NoEffect
    \/ Write(last'.bytes)
    \/ Read(last'.n)
    \/ Seek(last'.n)
    \/ Truncate(last'.n) \/ TruncateClosed(last'.n)

PlainSpec == PlainInit /\ [][PlainNext]_plainVars
=============================================================================
