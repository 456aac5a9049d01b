----------------------------- MODULE FlatBuffer -----------------------------
(***************************************************************************)
(* What a buffer of src/bolt/buffer.c promises (spec.md 4.1, P5, P6): a    *)
(* flat sequence of bytes that only grows at its end, a read cursor that   *)
(* moves forward over it, a bulk copy that appends the next n unread bytes *)
(* of one buffer to another, and a drain that puts the whole content on    *)
(* the socket and empties the buffer.  ChunkedBuffer is checked to refine  *)
(* it through the flattening of its chunks.                                *)
(***************************************************************************)
EXTENDS Naturals, Sequences

CONSTANT Bufs

VARIABLES
    data,   \* data[b]: the bytes before the write cursor of buffer b
    rp,     \* rp[b]: how many of them the read cursor has passed
    wire    \* the bytes drained to the socket

Extends(s, t) == Len(t) >= Len(s) /\ SubSeq(t, 1, Len(s)) = s

Init == data = [b \in Bufs |-> << >>] /\ rp = [b \in Bufs |-> 0] /\ wire = << >>

\* bytes are appended at the write cursor; nothing before it changes
Grow(b) ==
    /\ Extends(data[b], data'[b])
    /\ \A o \in Bufs \ {b} : data'[o] = data[o]
    /\ UNCHANGED << rp, wire >>

\* the read cursor passes n unread bytes
Consume(b, n) ==
    /\ n <= Len(data[b]) - rp[b]
    /\ rp' = [rp EXCEPT ![b] = @ + n]
    /\ UNCHANGED << data, wire >>

\* the next n unread bytes of s are appended to d
Transfer(s, d, n) ==
    /\ n <= Len(data[s]) - rp[s]
    /\ data' = [data EXCEPT ![d] = @ \o SubSeq(data[s], rp[s] + 1, rp[s] + n)]
    /\ rp' = [rp EXCEPT ![s] = @ + n]
    /\ UNCHANGED wire

\* the content goes to the socket and the buffer starts over
Drain(b) ==
    /\ wire' = wire \o data[b]
    /\ data' = [data EXCEPT ![b] = << >>]
    /\ rp' = [rp EXCEPT ![b] = 0]

Next ==
    \E b \in Bufs :
        \/ Grow(b)
        \/ Drain(b)
        \/ \E n \in 1..(Len(data[b]) - rp[b]) :
               \/ Consume(b, n)
               \/ \E d \in Bufs \ {b} : Transfer(b, d, n)

Spec == Init /\ [][Next]_<< data, rp, wire >>

=============================================================================
