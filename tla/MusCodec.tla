------------------------------ MODULE MusCodec ------------------------------
(***************************************************************************)
(* The MUS wire format: pkg/mus/mus.go, the frames of                      *)
(* internal/switchboard/codec.go, and the way the generated types of       *)
(* internal/capabilities/generated.go encode their fields.                 *)
(*                                                                         *)
(* A byte holds one group of bits and a flag, "more follow".  The code has *)
(* groups of 7 bits and words of 64; both are parameters, so that TLC can  *)
(* look at every word.  As 7 does not divide 64, the last byte of the      *)
(* longest varint has bits that no word has room for.                      *)
(*                                                                         *)
(* A reader takes a sequence of bytes and returns what it read and the     *)
(* rest, or an error.  Strings are sequences of bytes.                     *)
(***************************************************************************)
EXTENDS Integers, Sequences, FiniteSetsExt, SequencesExt

CONSTANTS
  Group,           (* bits in a byte of a varint (7)                        *)
  Width,           (* bits in a word (64)                                   *)
  MaxPayloadBytes, (* limit of a payload and of most strings (4 MiB)        *)
  MaxIDLen,        (* limit of the names in headers and requests (256)      *)
  MaxAlloc         (* elements that make([]T, n) has room for               *)

Base == 2 ^ Group
Bytes == 0..(2 * Base - 1)
Words == 0..(2 ^ Width - 1)
MaxVarintBytes == (Width + Group - 1) \div Group   (* 10 *)

ASSUME CodecAssumption ==
  /\ Group \in Nat \ {0} /\ Width \in Nat \ {0}
  /\ MaxPayloadBytes \in Words /\ MaxIDLen \in Nat /\ MaxAlloc \in Nat

(* What the exponent means: the provers know no more of it than its type.  *)
ASSUME PowerAssumption == \A n \in 0..(Width + Group) : 2 ^ (n + 1) = 2 * 2 ^ n

(* What a reader returns.                                                  *)
Read(v, rest) == [ok |-> TRUE, val |-> v, rest |-> rest]
Failed(e) == [ok |-> FALSE, err |-> e]

(* What follows a read, unless that failed.                                *)
Then(read, next(_)) == IF read.ok THEN next(read) ELSE read

-----------------------------------------------------------------------------
(* Faulty variants of definitions below.  The specification does not use   *)
(* them: each is a slip that one of the properties has to notice.          *)

(* The loop tests for more than a group instead of at least one.           *)
AppendVarintLate(b, v) ==
  LET bytes[w \in Words] ==
        IF w <= Base THEN <<w>> ELSE <<(w % Base) + Base>> \o bytes[w \div Base] IN
  b \o bytes[v]

(* The word is read as an unsigned number.                                 *)
ToIntUnsigned(w) == w

(* A string that is cut off is returned as far as it came.                 *)
TakeWhatThereIs(r, n) ==
  LET k == Min({n, Len(r)}) IN Read(SubSeq(r, 1, k), SubSeq(r, k + 1, Len(r)))

-----------------------------------------------------------------------------
(* Varints.                                                                *)

(* Go's conversions between int and uint64.                                *)
ToUint(n) == n % (2 ^ Width)
ToInt(w) == IF w < 2 ^ (Width - 1) THEN w ELSE w - 2 ^ Width

VarintBytes[w \in Words] ==
  IF w < Base THEN <<w>> ELSE <<(w % Base) + Base>> \o VarintBytes[w \div Base]

AppendVarint(b, v) == b \o VarintBytes[v]

VarintLen(v) ==
  LET bits == CHOOSE n \in 0..Width : v < 2 ^ n /\ (n = 0 \/ v >= 2 ^ (n - 1)) IN
  IF v = 0 THEN 1 ELSE (bits + Group - 1) \div Group

(* The groups of the first n bytes, lowest first.                          *)
Joined(r, n) ==
  LET from[i \in 1..n] == (r[i] % Base) + IF i = n THEN 0 ELSE Base * from[i + 1] IN
  from[1]

(* The groups up to the first byte without the flag; what is shifted out   *)
(* of the word is lost.                                                    *)
ReadVarint(r) ==
  LET ends == {i \in 1..Min({MaxVarintBytes, Len(r)}) : r[i] < Base}
      n == Min(ends) IN
  IF ends # {} THEN Read(Joined(r, n) % (2 ^ Width), SubSeq(r, n + 1, Len(r)))
  ELSE Failed(IF Len(r) < MaxVarintBytes THEN "EOF" ELSE "overflow")

-----------------------------------------------------------------------------
(* Strings and byte arrays.                                                *)

(* What a string of Go can be: its length is an int.                       *)
IsText(s) == s \in Seq(Bytes) /\ Len(s) \in Words

(* io.ReadFull.                                                            *)
Take(r, n) ==
  IF n <= Len(r) THEN Read(SubSeq(r, 1, n), SubSeq(r, n + 1, Len(r))) ELSE Failed("EOF")

AppendString(b, s) == AppendVarint(b, Len(s)) \o s

ReadString(r, maxLen) ==
  Then(ReadVarint(r), LAMBDA n :
    IF n.val > maxLen THEN Failed("too long") ELSE Take(n.rest, n.val))

(* Where a length has no limit, the array of that length is made before    *)
(* anything is read into it: for more elements than there can be, make     *)
(* panics.  Of elements that are all there, there are never so many.       *)
Allocated(n, read) == IF read.ok \/ n <= MaxAlloc THEN read ELSE Failed("panic")
Panics(read) == ~read.ok /\ read.err = "panic"

(* A length and as many bytes, without a limit of its own.                 *)
ReadBytes(r) ==
  Then(ReadVarint(r), LAMBDA n : Allocated(n.val, Take(n.rest, n.val)))

-----------------------------------------------------------------------------
(* Typed values.  An object travels as the text of its JSON, which is its  *)
(* value here.                                                             *)

(* One reader after another; the first error ends it.  The readers are a   *)
(* function of the place and the bytes.                                    *)
ReadEach(read, n, r) ==
  LET upTo[k \in 0..n] ==
        IF k = 0 THEN Read(<<>>, r)
        ELSE Then(upTo[k - 1], LAMBDA before :
               Then(read[k][before.rest], LAMBDA this :
                 Read(Append(before.val, this.val), this.rest))) IN
  upTo[n]

(* A count and the elements.                                               *)
AppendList(append(_), vs) ==
  AppendVarint(<<>>, Len(vs)) \o FlattenSeq([i \in DOMAIN vs |-> append(vs[i])])
ReadList(read(_), r) ==
  Then(ReadVarint(r), LAMBDA n :
    Allocated(n.val,
      ReadEach([i \in 1..n.val |-> [s \in Seq(Bytes) |-> read(s)]], n.val, n.rest)))

ReadBool(r) == Then(Take(r, 1), LAMBDA byte : Read(byte.val[1] # 0, byte.rest))

(* What a variable of a type may hold.                                     *)
IsInt(n) == n \in -(2 ^ (Width - 1))..(2 ^ (Width - 1) - 1)
IsTexts(ss) == ss \in Seq(Seq(Bytes)) /\ Len(ss) \in Words /\ \A i \in DOMAIN ss : IsText(ss[i])
IsOf(type, v) ==
  CASE type \in {"string", "object", "bytes"} -> IsText(v)
    [] type = "int" -> IsInt(v)
    [] type = "bool" -> v \in BOOLEAN
    [] type \in {"list<string>", "list<object>"} -> IsTexts(v)
    [] type = "list<list<string>>" ->
         v \in Seq(Seq(Seq(Bytes))) /\ Len(v) \in Words /\ \A i \in DOMAIN v : IsTexts(v[i])

MarshalField(type, v) ==
  LET string(s) == AppendString(<<>>, s)
      strings(ss) == AppendList(string, ss) IN
  CASE type \in {"string", "object"} -> string(v)
    [] type = "int" -> AppendVarint(<<>>, ToUint(v))
    [] type = "bool" -> <<IF v THEN 1 ELSE 0>>
    [] type \in {"list<string>", "list<object>"} -> strings(v)
    [] type = "list<list<string>>" -> AppendList(strings, v)

UnmarshalField(type, r) ==
  LET string(s) == ReadString(s, MaxPayloadBytes)
      strings(s) == ReadList(string, s) IN
  CASE type \in {"string", "object"} -> string(r)
    [] type = "int" -> Then(ReadVarint(r), LAMBDA w : Read(ToInt(w.val), w.rest))
    [] type = "bool" -> ReadBool(r)
    [] type \in {"list<string>", "list<object>"} -> strings(r)
    [] type = "list<list<string>>" -> ReadList(strings, r)

-----------------------------------------------------------------------------
(* Frames.  The type of a frame is a small number, as its version.         *)

MarshalHeader(h) ==
  AppendVarint(AppendVarint(
    AppendString(AppendString(<<h.version, h.type>>, h.from), h.to),
    h.seq), h.payloadLen)

WriteFrame(h, payload) ==
  MarshalHeader([h EXCEPT !.payloadLen = Len(payload)]) \o payload

HeaderSize(h) ==
  2 + VarintLen(Len(h.from)) + Len(h.from) + VarintLen(Len(h.to)) + Len(h.to)
    + VarintLen(h.seq) + VarintLen(h.payloadLen)

UnmarshalHeader(r) ==
  Then(Take(r, 2), LAMBDA fixed :
  Then(ReadString(fixed.rest, MaxIDLen), LAMBDA from :
  Then(ReadString(from.rest, MaxIDLen), LAMBDA to :
  Then(ReadVarint(to.rest), LAMBDA seq :
  Then(ReadVarint(seq.rest), LAMBDA len :
    IF len.val > MaxPayloadBytes THEN Failed("payload too large")
    ELSE Read([version |-> fixed.val[1], type |-> fixed.val[2], from |-> from.val,
               to |-> to.val, seq |-> seq.val, payloadLen |-> len.val], len.rest))))))

ReadFrame(r) ==
  Then(UnmarshalHeader(r), LAMBDA header :
  Then(Take(header.rest, header.val.payloadLen), LAMBDA payload :
    Read([header |-> header.val, payload |-> payload.val], payload.rest)))
=============================================================================
