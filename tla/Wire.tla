-------------------------------- MODULE Wire --------------------------------
(***************************************************************************)
(* Byte fields as text on the wire: the base64url of aethel-auth           *)
(* (crates/aethel-auth/src/b64.rs), and a verifier that keeps the keys it  *)
(* revoked as the text they came in.                                       *)
(*                                                                         *)
(* Three bytes make a group of four symbols.  A byte has 4 * Unit bits and *)
(* a symbol 3 * Unit; the Unit of the code is 2.                           *)
(***************************************************************************)
EXTENDS Integers, Sequences

CONSTANTS
  Unit,
  KeyLength,  \* bytes of a fixed-length field: 32
  Legacy,     \* the feature legacy-number-arrays
  Refused,    \* a field that does not read
  None,       \* an absent optional field
  MaxText     \* bound: the longest text considered

ASSUME WireAssumption ==
  /\ Unit \in Nat \ {0} /\ KeyLength \in Nat /\ Legacy \in BOOLEAN
  /\ MaxText \in Nat
  /\ Refused \notin Seq(Nat) \cup Seq(Seq(Nat))
  /\ None \notin [shape : {"text", "array", "raw"}, value : Seq(Nat)]

ByteBits == 4 * Unit
SymbolBits == 3 * Unit

ByteValues == 2 ^ ByteBits
SymbolValues == 2 ^ SymbolBits
Byte == 0..(ByteValues - 1)

(* A character of the alphabet is its position in it; any other character, *)
(* padding included, is Foreign.                                           *)
Symbol == 0..(SymbolValues - 1)
Foreign == SymbolValues
Character == Symbol \cup {Foreign}

-----------------------------------------------------------------------------
(* The k-th value of group g, in groups of n; 0 beyond the end.            *)
At(values, n, g, k) ==
  IF n * g + k \in DOMAIN values THEN values[n * g + k] ELSE 0

(* The bits of a group as one number.                                      *)
ByteGroup(bytes, g) ==
  At(bytes, 3, g, 1) * 2 ^ (2 * ByteBits) + At(bytes, 3, g, 2) * 2 ^ ByteBits
    + At(bytes, 3, g, 3)

SymbolGroup(text, g) ==
  At(text, 4, g, 1) * 2 ^ (3 * SymbolBits) + At(text, 4, g, 2) * 2 ^ (2 * SymbolBits)
    + At(text, 4, g, 3) * 2 ^ SymbolBits + At(text, 4, g, 4)

(* A group of k bytes takes k + 1 symbols.                                 *)
Encode(bytes) ==
  [m \in 1..(Len(bytes) + (Len(bytes) + 2) \div 3) |->
     (ByteGroup(bytes, (m - 1) \div 4)
        \div 2 ^ (SymbolBits * (3 - ((m - 1) % 4)))) % SymbolValues]

(* What text is read as, whatever its last bits are.                       *)
Bytes(text) ==
  [m \in 1..((Len(text) * 3) \div 4) |->
     (SymbolGroup(text, (m - 1) \div 3)
        \div 2 ^ (ByteBits * (2 - ((m - 1) % 3)))) % ByteValues]

(* Variant: a text must come in whole groups.                              *)
DecodeWholeGroups(text) ==
  IF Len(text) % 4 # 0 \/ \E m \in DOMAIN text : text[m] = Foreign THEN Refused
  ELSE Bytes(text)

(* decode_any: a single symbol is never left over.                         *)
DecodeAny(text) ==
  IF Len(text) % 4 = 1 \/ \E m \in DOMAIN text : text[m] = Foreign THEN Refused
  ELSE Bytes(text)

(* Variant: as before the review of 2026-10-14 (b64.rs:9-14).              *)
DecodeLenient(text) == DecodeAny(text)

(* decode: only what encode would have written.                            *)
Decode(text) ==
  LET out == DecodeAny(text)
  IN  IF out # Refused /\ Encode(out) = text THEN out ELSE Refused

-----------------------------------------------------------------------------
(* Fields, from what stands in their place: text, an array of numbers or   *)
(* (in another format than JSON) raw bytes.                                *)
ReadBytes(v) ==
  CASE v.shape = "text"  -> Decode(v.value)
    [] v.shape = "array" -> IF Legacy THEN v.value ELSE Refused
    [] v.shape = "raw"   -> v.value

(* Variant: however long it is.                                            *)
ReadArrayOfAnyLength(v) == ReadBytes(v)

ReadArray32(v) ==
  LET b == ReadBytes(v)
  IN  IF b # Refused /\ Len(b) = KeyLength THEN b ELSE Refused

ReadOption(v) == IF v = None THEN None ELSE ReadArray32(v)

ReadAll(vs) ==
  IF \E i \in DOMAIN vs : ReadBytes(vs[i]) = Refused THEN Refused
  ELSE [i \in DOMAIN vs |-> ReadBytes(vs[i])]

-----------------------------------------------------------------------------
(* A verifier reads fields as they come in, character by character, and    *)
(* files the keys that are revoked under their text (external).            *)

Field(characters) == [shape |-> "text", value |-> characters]
Key(characters) == ReadArray32(Field(characters))

VARIABLES
  text,   \* the field that is coming in
  store   \* the texts of revoked keys

vars == <<text, store>>

TypeOK ==
  /\ text \in Seq(Character) /\ Len(text) <= MaxText
  /\ store \subseteq [1..(KeyLength + (KeyLength + 2) \div 3) -> Symbol]

Init == text = <<>> /\ store = {}

Receive(c) ==
  /\ Len(text) < MaxText
  /\ text' = Append(text, c)
  /\ UNCHANGED store

(* The field is the key of a revocation ...                                *)
FileRevoked ==
  /\ store = {}   \* bound: one key
  /\ Key(text) # Refused
  /\ store' = store \cup {text}
  /\ text' = <<>>

(* ... or of something else.                                               *)
NextField ==
  /\ text # <<>>
  /\ text' = <<>>
  /\ UNCHANGED store

Next == (\E c \in Character : Receive(c)) \/ FileRevoked \/ NextField

Spec == Init /\ [][Next]_vars

-----------------------------------------------------------------------------
(* The reference: a string of bits.                                        *)

Bit(values, width, k) ==
  LET value == values[(k - 1) \div width + 1]
  IN  (value \div 2 ^ (width - 1 - ((k - 1) % width))) % 2

TextBits == SymbolBits * Len(text)
WholeBytes == TextBits \div ByteBits
Unused == (ByteBits * WholeBytes + 1)..TextBits

(* Text for whole bytes, and no more of it than they take.                 *)
Canonical ==
  /\ text \in Seq(Symbol)
  /\ \A k \in Unused : Bit(text, SymbolBits, k) = 0
  /\ TextBits - ByteBits * WholeBytes < SymbolBits

-----------------------------------------------------------------------------
(* Safety.                                                                 *)

(* What is accepted is the canonical spelling of the bytes it is read as,  *)
(* bit for bit (b64.rs:9-11).                                              *)
AcceptedAsWritten ==
  LET bytes == Decode(text)
  IN  bytes # Refused =>
        /\ Canonical
        /\ Len(bytes) = WholeBytes
        /\ \A k \in 1..(ByteBits * WholeBytes) :
             Bit(bytes, ByteBits, k) = Bit(text, SymbolBits, k)

(* Nothing canonical is refused, whatever its length (b64.rs:44-49).       *)
CanonicalAccepted == Canonical => Decode(text) # Refused

(* A revoked key does not come back under another spelling, past a store   *)
(* that compares text (b64.rs:11-14): not as a field of its own, not where *)
(* a field is optional, and not in a list.                                 *)
NoSecondSpelling ==
  \A filed \in store :
    text # filed =>
      /\ Key(text) # Key(filed)
      /\ ReadOption(Field(text)) # ReadOption(Field(filed))
      /\ ReadAll(<<Field(text)>>) # ReadAll(<<Field(filed)>>)
=============================================================================
