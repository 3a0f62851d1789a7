-------------------------------- MODULE Fields --------------------------------
(***************************************************************************)
(* Bytes as the fields that were written to them.  A run of bytes is a     *)
(* sequence of fields, each of a width and a value; whoever reads it gives *)
(* an offset and a width, and gets a value only if a field of that width   *)
(* lies just there.  So a width, an offset or a padding that two sides do  *)
(* not agree on shows, and what the bytes of a number are does not matter. *)
(* Zeros alone can be cut anywhere.  A text is a sequence of fields too:   *)
(* F(5, n) is five characters that are not NUL, F(1, 0) is a NUL.          *)
(***************************************************************************)
EXTENDS Integers, Sequences

Garbage == 1000000          \* what is read across the borders of fields
UNDEFINED == 999999         \* all bits set: an undefined address, an unlimited dimension

F(width, value) == [w |-> width, v |-> value]
Zeros(n) == IF n = 0 THEN <<>> ELSE <<F(n, 0)>>
Vector(width, values) == [i \in DOMAIN values |-> F(width, values[i])]
Left(s) == SubSeq(s, 1, Len(s) \div 2)
Right(s) == SubSeq(s, Len(s) \div 2 + 1, Len(s))

RECURSIVE Size(_)
Size(body) ==
    IF body = <<>> THEN 0 ELSE IF Len(body) = 1 THEN body[1].w ELSE Size(Left(body)) + Size(Right(body))

RECURSIVE Joined(_)
Joined(bodies) ==
    IF bodies = <<>> THEN <<>> ELSE IF Len(bodies) = 1 THEN bodies[1]
    ELSE Joined(Left(bodies)) \o Joined(Right(bodies))

pad8(n) == ((n + 7) \div 8) * 8
Padded(body) == body \o Zeros(pad8(Size(body)) - Size(body))

Cut(field, width) ==
    IF width = field.w \/ field.v = 0 THEN F(width, field.v) ELSE F(width, Garbage)

Lesser(m, n) == IF m <= n THEN m ELSE n

\* The fields of the `len` bytes from `off` on, or of what there is of them.
RECURSIVE Slice(_, _, _)
Slice(body, off, len) ==
    IF body = <<>> \/ len <= 0 THEN <<>>
    ELSE IF Len(body) = 1
    THEN IF off >= body[1].w THEN <<>> ELSE <<Cut(body[1], Lesser(body[1].w - off, len))>>
    ELSE LET left == Size(Left(body))
         IN  IF off >= left THEN Slice(Right(body), off - left, len)
             ELSE Slice(Left(body), off, len) \o Slice(Right(body), 0, len - (left - off))
From(body, off) == Slice(body, off, Size(body))

IsZero(body) == \A i \in DOMAIN body : body[i].v = 0
ValueOf(s) == IF IsZero(s) THEN 0 ELSE IF Len(s) = 1 THEN s[1].v ELSE Garbage
Read(body, off, width) == ValueOf(Slice(body, off, width))
ReadVector(body, off, width, n) == [i \in 1..n |-> Read(body, off + (i - 1) * width, width)]

Fits(body, off, len) == off + len <= Size(body)
Bit(value, k) == (value \div 2 ^ k) % 2 = 1

\* Where the first NUL is, counted in fields.
HasNul(text) == \E i \in DOMAIN text : text[i].v = 0
Nul(text) == CHOOSE i \in DOMAIN text : text[i].v = 0 /\ \A j \in 1..(i - 1) : text[j].v # 0
UntilNul(text) == IF HasNul(text) THEN SubSeq(text, 1, Nul(text) - 1) ELSE text
=============================================================================
