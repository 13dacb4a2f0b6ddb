------------------------------ MODULE AesMptsDec -----------------------------
(***************************************************************************)
(* The aesmptsdecrypt element (src/aesmptsdec/): start() makes a           *)
(* scte52_processor of the key and the initialization vector the           *)
(* application set, and transform_ip() has it clear the packets in place:  *)
(* the payload's whole cipher blocks by CBC, what is left of it (its       *)
(* residue) with a block that is encrypted for the purpose.                *)
(*                                                                         *)
(* A byte is a Boolean, so that # is its XOR, and a payload comes split    *)
(* into blocks and residue.  The block cipher is external: any family of   *)
(* permutations.  The sender is external too, it scrambles with the        *)
(* cipher alone what the element clears with a CBC object.                 *)
(***************************************************************************)
EXTENDS Integers, Sequences

CONSTANTS
  PacketSize, BlockSize,  \* 188 and 16
  Keys, Ivs,              \* keys and initialization vectors in use
  Cipher,                 \* [Keys -> permutations of Block]
  NotSet,                 \* a null pointer
  MaxAesStarts            \* bound on starts

HeaderSize == 4
Block == [1..BlockSize -> BOOLEAN]

ASSUME CipherAssumption ==
  /\ BlockSize \in Nat \ {0} /\ PacketSize \in Nat /\ PacketSize > HeaderSize + 1
  /\ Ivs \subseteq Block /\ NotSet \notin Keys /\ NotSet \notin Ivs
  /\ \A k \in Keys :
       /\ \A x \in Block : Cipher[k][x] \in Block
       /\ \A x, y \in Block : Cipher[k][x] = Cipher[k][y] => x = y
       /\ \A y \in Block : \E x \in Block : Cipher[k][x] = y
ASSUME AesBoundsAssumption == MaxAesStarts \in Nat

VARIABLES
  modeKnown,              \* m_aes_mode is "aes_128_cbc"
  aesKey, aesIv,          \* m_key and m_iv, for the next start()
  processor,              \* m_stream_processor, or NotSet
  crashed,                \* start() used a null pointer
  last,                   \* transform_ip()'s packet, before and after
  aesStarts               \* bounded counter

aesVars == <<modeKnown, aesKey, aesIv, processor, crashed, last, aesStarts>>

-----------------------------------------------------------------------------
(* aes_transform_openssl, in the two ways it is used.                      *)

Xor(x, y) == [i \in DOMAIN x |-> x[i] # y[i]]
Zero == [i \in 1..BlockSize |-> FALSE]
Decipher(k, y) == CHOOSE x \in Block : Cipher[k][x] = y

\* One block, encrypted by a CBC object that was just configured.
EncryptOne(k, iv, x) == Cipher[k][Xor(x, iv)]

\* What CBC adds to the j-th block.
Previous(iv, blocks, j) == IF j = 1 THEN iv ELSE blocks[j - 1]

DecryptInPlace(k, iv, blocks) ==
  [j \in DOMAIN blocks |-> Xor(Decipher(k, blocks[j]), Previous(iv, blocks, j))]

-----------------------------------------------------------------------------
(* scte52_processor.                                                       *)

Processor(k, iv) == [key |-> k, iv |-> iv, srtb |-> EncryptOne(k, iv, iv)]

\* The block that clears the residue: of the last cipher block, as it came in, or
\* computed once when there is none.
ResidueFactor(p, blocks) ==
  IF blocks = <<>> THEN p.srtb ELSE EncryptOne(p.key, p.iv, blocks[Len(blocks)])

\* Mutant: the blocks are decrypted first, and the residue with what they became.
ProcessPayload_BlocksFirst(p, payload) ==
  LET blocks == DecryptInPlace(p.key, p.iv, payload.blocks)
  IN  [blocks |-> blocks, residue |-> Xor(payload.residue, ResidueFactor(p, blocks))]

\* The residue comes first.
ProcessPayload(p, payload) ==
  LET residue == Xor(payload.residue, ResidueFactor(p, payload.blocks))
  IN  [blocks |-> DecryptInPlace(p.key, p.iv, payload.blocks), residue |-> residue]

MaxAfLength == PacketSize - HeaderSize - 1 - 1

\* afc 1 is a payload alone; what is not 1 or 2 has an adaptation field before it.
BadField(packet) == packet.afc # 1 /\ packet.afLength > MaxAfLength
PayloadSize(packet) ==
  PacketSize - HeaderSize - (IF packet.afc = 1 THEN 0 ELSE 1 + packet.afLength)

\* process_packet() leaves a packet alone that is damaged, clear or without payload.
LeftAlone(packet) ==
  ~packet.sync \/ ~packet.scrambled \/ packet.afc = 2 \/ BadField(packet)

ProcessPacket(p, packet) ==
  IF LeftAlone(packet) THEN packet
  ELSE [packet EXCEPT !.scrambled = FALSE, !.payload = ProcessPayload(p, packet.payload)]

-----------------------------------------------------------------------------
(* The sender: what it makes of a payload.                                 *)

Payloads(size) ==
  [blocks : [1..size \div BlockSize -> Block], residue : [1..size % BlockSize -> BOOLEAN]]

\* What the sender enciphers to scramble the residue.
LastBlock(iv, blocks) == IF blocks = <<>> THEN iv ELSE blocks[Len(blocks)]

Scrambles(k, iv, clear, payload) ==
  /\ \A j \in DOMAIN clear.blocks :
       payload.blocks[j] = Cipher[k][Xor(clear.blocks[j], Previous(iv, payload.blocks, j))]
  /\ payload.residue = Xor(clear.residue, Cipher[k][LastBlock(iv, payload.blocks)])

Headers ==
  [sync : BOOLEAN, scrambled : BOOLEAN, afc : 0..3, afLength : 0..MaxAfLength + 1]

\* The header fields that matter: an adaptation field has a length if there is one.
SentHeaders ==
  {h \in Headers : /\ h.sync \/ h.scrambled
                   /\ h.afc \in {1, 2} => h.afLength = 0
                   /\ h.afc = 0 => h.afLength \in {0, MaxAfLength}}

WithPayload(h, payload) ==
  [sync |-> h.sync, scrambled |-> h.scrambled, afc |-> h.afc, afLength |-> h.afLength,
   payload |-> payload]

-----------------------------------------------------------------------------
AesInit ==
  /\ modeKnown = FALSE /\ aesKey = NotSet /\ aesIv = NotSet
  /\ processor = NotSet /\ crashed = FALSE /\ last = NotSet
  /\ aesStarts = 0

SetMode(known) ==
  /\ ~crashed /\ modeKnown' = known /\ last' = NotSet
  /\ UNCHANGED <<aesKey, aesIv, processor, crashed, aesStarts>>

\* A parameter set while the element runs waits for the next start().
SetParameter ==
  /\ ~crashed /\ last' = NotSet
  /\ \/ aesKey' \in Keys /\ UNCHANGED aesIv
     \/ aesIv' \in Ivs /\ UNCHANGED aesKey
  /\ UNCHANGED <<modeKnown, processor, crashed, aesStarts>>

\* start() takes the parameters away from the element ...
AesStart ==
  /\ ~crashed /\ processor = NotSet /\ modeKnown /\ aesStarts < MaxAesStarts
  /\ NotSet \notin {aesKey, aesIv}
  /\ processor' = Processor(aesKey, aesIv)
  /\ aesKey' = NotSet /\ aesIv' = NotSet /\ aesStarts' = aesStarts + 1
  /\ UNCHANGED <<modeKnown, crashed, last>>

\* ... and does not look whether they are there: a second start() needs them again.
AesStartCrashes ==
  /\ ~crashed /\ processor = NotSet /\ modeKnown /\ aesStarts < MaxAesStarts
  /\ NotSet \in {aesKey, aesIv}
  /\ crashed' = TRUE
  /\ UNCHANGED <<modeKnown, aesKey, aesIv, processor, last, aesStarts>>

AesStop ==
  /\ processor # NotSet
  /\ processor' = NotSet /\ last' = NotSet
  /\ UNCHANGED <<modeKnown, aesKey, aesIv, crashed, aesStarts>>

\* transform_ip(): a packet arrives that the sender scrambled with the parameters of
\* this start(), or that it left clear.  Packets do not change the processor: one after
\* each step of the application is enough.
Transform(h, clear, payload) ==
  /\ processor # NotSet /\ last = NotSet
  /\ IF h.scrambled THEN Scrambles(processor.key, processor.iv, clear, payload)
                    ELSE payload = clear
  /\ LET packet == WithPayload(h, payload)
     IN  last' = [clear |-> clear, received |-> packet,
                  out |-> ProcessPacket(processor, packet)]
  /\ UNCHANGED <<modeKnown, aesKey, aesIv, processor, crashed, aesStarts>>

AesNext ==
  \/ SetParameter \/ \E known \in BOOLEAN : SetMode(known)
  \/ AesStart \/ AesStartCrashes \/ AesStop
  \/ \E h \in SentHeaders :
       LET size == IF BadField(h) \/ h.afc = 2 THEN 0 ELSE PayloadSize(h)
       IN  \E clear, payload \in Payloads(size) : Transform(h, clear, payload)

AesSpec == AesInit /\ [][AesNext]_aesVars

-----------------------------------------------------------------------------
\* The parameters are in their domains.
AesTypeOK ==
  /\ {modeKnown, crashed} \subseteq BOOLEAN
  /\ aesKey \in Keys \cup {NotSet} /\ aesIv \in Ivs \cup {NotSet}
  /\ processor # NotSet =>
       /\ processor.key \in Keys /\ processor.iv \in Ivs
       /\ processor = Processor(processor.key, processor.iv)
  /\ aesStarts \in Nat

\* The residue as the element leaves it: the sender enciphers the last cipher block, the
\* element that block mixed with the vector, because its object for one block is in CBC
\* mode too.
ResidueLeft(k, iv, blocks, residue) ==
  LET block == LastBlock(iv, blocks)
  IN  Xor(Xor(residue, Cipher[k][block]), Cipher[k][Xor(block, iv)])

\* Of a packet that the sender scrambled all whole blocks leave the element clear,
\* whatever its layout and whichever parameters were set since the start, and so does its
\* residue when the vector is zero; with any other vector the residue is mixed with two
\* enciphered blocks.  Any other packet leaves as it came.
DecryptInverts ==
  last # NotSet =>
    IF LeftAlone(last.received) THEN last.out = last.received
    ELSE LET left == ResidueLeft(processor.key, processor.iv, last.received.payload.blocks,
                                 last.clear.residue)
         IN  /\ last.out = [last.received EXCEPT !.scrambled = FALSE,
                              !.payload = [blocks |-> last.clear.blocks, residue |-> left]]
             /\ processor.iv = Zero => left = last.clear.residue
=============================================================================
