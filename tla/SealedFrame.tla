---------------------------- MODULE SealedFrame ----------------------------
(***************************************************************************)
(* The byte framing of a kexec package: the writer in kexec-sealer        *)
(* (main.go 55-82) and the two parsers in homegw-libs/kexec/lib.go: the   *)
(* outer frame of the decrypted payload, sig ‖ data (decryptAndVerify     *)
(* 173-196), and the inner frame of data, kernel ‖ config (Unseal 49-70). *)
(* Each frame is                                                          *)
(*     u32 LE len(first) ‖ first ‖ u32 LE len(second) ‖ second            *)
(* with the second part filling the rest exactly.                         *)
(*                                                                         *)
(* The AEAD layer is not modelled here: Open(Seal(pt)) = pt under the one *)
(* key, and the magic and the nonce are stripped before the outer frame   *)
(* is read (lib.go 152-171).  A payload is a sequence of "bytes" in       *)
(* 0..Base-1; a length field is FieldBytes of them, little-endian, so it  *)
(* holds Base^FieldBytes values (2^32 in the code).  Go's int, to which   *)
(* the parser converts each field before comparing, has IntBits bits.     *)
(***************************************************************************)
EXTENDS Integers, Sequences

CONSTANTS Base,       \* values of a byte
          FieldBytes, \* bytes of a length field
          IntBits,    \* bits of Go's int on the build
          Payloads,   \* authenticated payloads not written by this sealer
          Parts       \* kernels, configs and signatures given to the sealer

VARIABLES wire,    \* the decrypted payload the handler parses
          written  \* <<kernel, config, sig>> it was sealed from, or <<>>

vars == <<wire, written>>

\* The values of a u32 field (2^32).
FieldMax == Base ^ FieldBytes

\* binary.LittleEndian.Uint32: the first byte is the least significant.
RECURSIVE LE(_)
LE(s) == IF s = <<>> THEN 0 ELSE Head(s) + Base * LE(Tail(s))

\* Mutant: the whole value written into the first byte, no carry.
RECURSIVE PutLENoCarry(_, _)
PutLENoCarry(n, k) == IF k = 0 THEN <<>> ELSE <<n>> \o PutLENoCarry(0, k - 1)

\* binary.Write / AppendUint32 of uint32(n): n is truncated to the field.
RECURSIVE PutLE(_, _)
PutLE(n, k) == IF k = 0 THEN <<>> ELSE <<n % Base>> \o PutLE(n \div Base, k - 1)

Field(n) == PutLE(n % FieldMax, FieldBytes)

\* int(x) of a uint32: the bit pattern read as a signed IntBits-bit
\* integer, negative from 2^31 on when int has 32 bits.
GoInt(u) == LET m == 2 ^ IntBits
                v == u % m
            IN  IF v >= m \div 2 THEN v - m ELSE v

Take(s, n) == SubSeq(s, 1, n)
Drop(s, n) == SubSeq(s, n + 1, Len(s))

Result(st, a, b) == [status |-> st, first |-> a, second |-> b]
Failed(st) == Result(st, <<>>, <<>>)

\* The first frame: a length, then that many bytes, then more.  The check
\* compares len with int(n); the slice b[:n] indexes with the uint32 n
\* itself and panics past cap(b), which is below 2^31 (the body is at
\* most 128 MiB), so past len(b) in this model.
PrefixFrame(b) ==
    IF Len(b) < FieldBytes THEN Failed("invalid")
    ELSE LET n == LE(Take(b, FieldBytes))
             r == Drop(b, FieldBytes)
         IN  IF Len(r) < GoInt(n) THEN Failed("invalid")
             ELSE IF n > Len(r) THEN Failed("panic")
             ELSE Result("ok", Take(r, n), Drop(r, n))

\* Mutant: trailing bytes after the last frame accepted.
LastFrameLoose(b) ==
    IF Len(b) < FieldBytes THEN Failed("invalid")
    ELSE LET n == LE(Take(b, FieldBytes))
             r == Drop(b, FieldBytes)
         IN  IF Len(r) < GoInt(n) THEN Failed("invalid")
             ELSE Result("ok", Take(r, n), <<>>)

\* The last frame: a length that must equal what is left.
LastFrame(b) ==
    IF Len(b) < FieldBytes THEN Failed("invalid")
    ELSE LET n == LE(Take(b, FieldBytes))
             r == Drop(b, FieldBytes)
         IN  IF Len(r) # GoInt(n) THEN Failed("invalid")
             ELSE Result("ok", r, <<>>)

\* A two-part frame: the first frame, then the last frame of the rest.
SplitFrame(b) ==
    LET f == PrefixFrame(b)
        g == LastFrame(f.second)
    IN  IF f.status # "ok" THEN f
        ELSE IF g.status # "ok" THEN g
        ELSE Result("ok", f.first, g.first)

\* decryptAndVerify 173-196: the payload splits into sig and data.
OuterPayload(b) == SplitFrame(b)

\* Unseal 49-70: data splits into kernel and config.
InnerPackage(d) == SplitFrame(d)

\* The sealer's two frames.
Frame2(a, b) == Field(Len(a)) \o a \o Field(Len(b)) \o b

\* kexec-sealer main.go 55-60: data = kernel ‖ config, framed.
SealerData(kernel, config) == Frame2(kernel, config)

\* Mutant: len(data) written as the signature's length.
SealerPayloadDataLen(sig, data) ==
    Field(Len(data)) \o sig \o Field(Len(data)) \o data

\* kexec-sealer main.go 72-76: the plaintext = sig ‖ data, framed.
SealerPayload(sig, data) == Frame2(sig, data)

\* What the handler gets from a payload: sig, kernel and config, or the
\* first failure (the outer frame is read before the inner one).
Receive(b) ==
    LET o == OuterPayload(b)
        i == InnerPackage(o.second)
        r == IF o.status # "ok" THEN o ELSE i
    IN  [status |-> r.status, sig |-> o.first, kernel |-> i.first, config |-> i.second]

-----------------------------------------------------------------------------
Init == wire = <<>> /\ written = <<>>

\* kexec-sealer main: frame kernel and config, the operator's signature
\* and the data, then seal.
Seal(kernel, config, sig) ==
    /\ wire' = SealerPayload(sig, SealerData(kernel, config))
    /\ written' = <<kernel, config, sig>>

\* Any other payload sealed under the key: the AEAD authenticates it, but
\* only the signature check after the frames tells who made it.
Other(p) == wire' = p /\ written' = <<>>

Next ==
    \/ \E k, c, s \in Parts : Seal(k, c, s)
    \/ \E p \in Payloads : Other(p)

Spec == Init /\ [][Next]_vars

-----------------------------------------------------------------------------
(***************************************************************************)
(* Properties.                                                             *)
(***************************************************************************)

TypeOK ==
    /\ wire \in Seq(0..(Base - 1))
    /\ written \in {<<>>} \cup (Parts \X Parts \X Parts)

\* The grammar of spec 3, u32 lengths included: the parts a and b with
\* b = Frame2(a, c), or "invalid" when there are none.
RefSplit(b) ==
    LET Firsts  == {SubSeq(b, FieldBytes + 1, n) : n \in FieldBytes..Len(b)}
        Seconds == {SubSeq(b, m, Len(b)) : m \in 1..(Len(b) + 1)}
        Ok(x, y) == Len(x) < FieldMax /\ Len(y) < FieldMax /\ b = Frame2(x, y)
    IN  IF \E x \in Firsts, y \in Seconds : Ok(x, y)
          THEN LET xy == CHOOSE xy \in Firsts \X Seconds : Ok(xy[1], xy[2])
               IN  Result("ok", xy[1], xy[2])
          ELSE Failed("invalid")

\* Both frame parsers of lib.go accept exactly the payloads the grammar
\* accepts, return the parts it defines, and reject every other payload
\* with ErrInvalidBlob (spec 5: malformed input is a 400), never a panic,
\* whatever the length fields hold.
FrameParserSound ==
    LET o == OuterPayload(wire)
    IN  /\ o = RefSplit(wire)
        /\ o.status = "ok" => InnerPackage(o.second) = RefSplit(o.second)

\* A package the sealer writes is read back by the handler as the very
\* kernel, config and signature it was sealed from.
SealerRoundTrip ==
    written # <<>> =>
        Receive(wire) = [status |-> "ok", sig |-> written[3],
                         kernel |-> written[1], config |-> written[2]]
=============================================================================
