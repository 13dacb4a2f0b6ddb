------------------------- MODULE ClientElementProofs -------------------------
(***************************************************************************)
(* Two elements of the client that share nothing (MCElements checks them   *)
(* side by side).  The window of the external sink: the application's      *)
(* choice is kept, and the compositor's surface follows the window,        *)
(* whichever thread moved it.  The packets of aesmptsdecrypt: they come    *)
(* out as the sender had them before it scrambled them.                    *)
(***************************************************************************)
EXTENDS ExternalSink, AesMptsDec, TLAPS

-----------------------------------------------------------------------------
(* externalsink.                                                           *)

LEMMA ExtInitTypes == ExtInit => ExtTypeOK
<1>1. DefaultWindow \in Windows
  BY WindowAssumption
<1>2. ExtInit => rects \in Nat /\ events \in Nat /\ extStarts \in Nat
  BY DEF ExtInit
<1>3. QED
  BY <1>1, <1>2, Zenon DEF ExtInit, ExtTypeOK

LEMMA ExtStepTypes ==
  ASSUME ExtTypeOK, [ExtNext]_extVars
  PROVE  ExtTypeOK'
<1> USE DEF ExtTypeOK
<1>1. ASSUME NEW available \in SUBSET {"vpc", "output"}, ExtStart(available)
      PROVE  ExtTypeOK'
  <2>1. StartGeometry(window) \in Windows \cup {Unset}
    BY DEF StartGeometry
  <2>2. vpcSurface' \in BOOLEAN
    <3>1. vpcSurface' = ("vpc" \in available)
      BY <1>1 DEF ExtStart
    <3>2. ("vpc" \in available) \in BOOLEAN
      OBVIOUS
    <3>3. QED
      BY <3>1, <3>2, Zenon
  <2>3. vpcGeometry' \in Windows \cup {Unset}
    BY <1>1, <2>1 DEF ExtStart
  <2>4. rects' \in Nat /\ events' \in Nat /\ extStarts' \in Nat
    BY <1>1 DEF ExtStart
  <2>5. /\ connected' = TRUE /\ globals' = available
        /\ quit' = FALSE /\ shut' = FALSE /\ dispatcher' = "loop"
        /\ window' = window /\ sizeOverride' = sizeOverride
        /\ windowChange' = windowChange /\ rectangle' = rectangle
        /\ differed' = differed /\ setter' = setter /\ stopper' = stopper
    BY <1>1, Zenon DEF ExtStart, choice
  <2>6. QED
    BY <2>2, <2>3, <2>4, <2>5, Zenon
<1>2. CASE ExtStop
  BY <1>2 DEF ExtStop, objects, geometry, choice, counters
<1>3. CASE ExtStopped
  BY <1>3 DEF ExtStopped, counters, choice
<1>4. ASSUME NEW w \in Windows, CompareRectangle(w)
      PROVE  ExtTypeOK'
  <2>1. setter' \in {"compare", "differs"} /\ rectangle' = w /\ rects' = rects + 1
    BY <1>4 DEF CompareRectangle
  <2>2. differed' \in BOOLEAN
    BY <1>4 DEF CompareRectangle
  <2> QED BY <1>4, <2>1, <2>2 DEF CompareRectangle, objects, stopping
<1>5. CASE CompareHeight
  <2>1. setter' \in {"idle", "differs"} /\ differed' \in BOOLEAN
    BY <1>5 DEF CompareHeight
  <2> QED BY <1>5, <2>1 DEF CompareHeight, objects, stopping, counters
<1>6. CASE SetRectangle
  BY <1>6 DEF SetRectangle, objects, choice, stopping, counters
<1>7. CASE SetterTellsVpc
  BY <1>7 DEF SetterTellsVpc, objects, choice, stopping, counters
<1>8. CASE SetterUpdates
  BY <1>8 DEF SetterUpdates, Update, objects, choice, stopping, counters
<1>9. CASE DispatchThread
  <2>1. CASE DispatchLoop
    BY <2>1 DEF DispatchLoop, objects, geometry, choice, stopping, counters
  <2>2. CASE DispatchFails
    BY <2>2 DEF DispatchFails, objects, geometry, choice, stopping, counters
  <2>3. CASE DispatcherUpdates
    BY <2>3 DEF DispatcherUpdates, Update, objects, choice, stopping, counters
  <2> QED BY <1>9, <2>1, <2>2, <2>3 DEF DispatchThread
<1>10. CASE XformEvent
  BY <1>10 DEF XformEvent, Dispatch, objects, choice, stopping
<1>11. ASSUME NEW size \in WindowSizes, ModeEvent(size)
       PROVE  ExtTypeOK'
  <2>1. [window EXCEPT !.size = size] \in Windows
    BY DEF Windows
  <2>2. QED
    BY <1>11, <2>1 DEF ModeEvent, Dispatch, objects, choice, stopping
<1>12. CASE UNCHANGED extVars
  BY <1>12 DEF extVars
<1>13. QED
  BY <1>1, <1>2, <1>3, <1>4, <1>5, <1>6, <1>7, <1>8, <1>9, <1>10, <1>11, <1>12
     DEF ExtNext, ExtEvents, ExtApplication

\* The variables of the element stay in their domains: an inductive invariant on
\* its own (gst_external_sink.c, all handlers).
THEOREM ExtTypes == ExtSpec => []ExtTypeOK
  BY ExtInitTypes, ExtStepTypes, PTL DEF ExtSpec

-----------------------------------------------------------------------------
\* While the rectangle is compared, its position (and once a rectangle has differed, its
\* width) is the window's: only the application moves the window, and once a rectangle
\* has differed nobody else resizes it.
RectInv ==
  /\ ExtTypeOK /\ RectangleKept
  /\ differed /\ setter # "differs" => sizeOverride
  /\ setter = "compare" => rectangle.pos = window.pos
  /\ differed /\ setter = "compare" => rectangle.size.width = window.size.width

\* Windows that agree in everything are the same.
LEMMA SameWindow ==
  ASSUME NEW v \in Windows, NEW w \in Windows,
         v.pos = w.pos, v.size.width = w.size.width, v.size.height = w.size.height
  PROVE  v = w
<1>1. /\ v = [pos |-> v.pos, size |-> v.size] /\ w = [pos |-> w.pos, size |-> w.size]
      /\ v.size \in WindowSizes /\ w.size \in WindowSizes
  BY DEF Windows
<1>2. /\ v.size = [width |-> v.size.width, height |-> v.size.height]
      /\ w.size = [width |-> w.size.width, height |-> w.size.height]
  BY <1>1 DEF WindowSizes
<1> QED BY <1>1, <1>2

\* The step that ends the comparison.
LEMMA ComparedWindow ==
  ASSUME RectInv, CompareHeight
  PROVE  RectangleKept'
<1>1. setter = "compare" /\ window' = window /\ rectangle' = rectangle
  BY DEF CompareHeight
<1>2. CASE rectangle.size.height = window.size.height
  <2>1. differed' = (differed \/ FALSE) /\ setter' = "idle"
    BY <1>2 DEF CompareHeight
  <2>2. differed' => differed
    BY <2>1
  <2>3. differed => rectangle = window
    <3>1. rectangle \in Windows /\ window \in Windows
      BY DEF RectInv, ExtTypeOK
    <3> QED BY <1>1, <1>2, <3>1, SameWindow DEF RectInv
  <2> QED BY <1>1, <2>2, <2>3 DEF RectangleKept
<1>3. CASE rectangle.size.height # window.size.height
  <2>1. setter' = "differs"
    BY <1>3 DEF CompareHeight
  <2> QED BY <2>1 DEF RectangleKept
<1> QED BY <1>2, <1>3

\* From the first rectangle on that was found to differ from the window, the window is the
\* application's last rectangle: no event of the compositor changes it, at whatever moment
\* and over whatever restart.  One that seems to be the window already is ignored and does
\* not count as the first (set_property("rectangle") against outputHandleMode()).
THEOREM RectangleKeptTheorem == ExtSpec => []RectangleKept
<1>1. ExtInit => RectInv
  <2>1. ExtInit => RectangleKept /\ setter = "idle" /\ differed = FALSE
    BY DEF ExtInit, RectangleKept
  <2> QED BY <2>1, ExtInitTypes DEF RectInv
<1>2. RectInv /\ [ExtNext]_extVars => RectInv'
  <2> SUFFICES ASSUME RectInv, [ExtNext]_extVars PROVE RectInv'
    OBVIOUS
  <2>0. ExtTypeOK'
    BY ExtStepTypes DEF RectInv
  <2>1. ASSUME UNCHANGED <<window, rectangle, differed, sizeOverride>>,
               setter' = setter \/ {setter, setter'} \cap {"compare", "differs"} = {}
        PROVE  RectInv'
    BY <2>0, <2>1 DEF RectInv, RectangleKept
  <2>2. ASSUME NEW w \in Windows, CompareRectangle(w)
        PROVE  RectInv'
    <3>1. /\ setter = "idle" /\ rectangle' = w /\ window' = window
          /\ sizeOverride' = sizeOverride /\ setter' \in {"compare", "differs"}
      BY <2>2 DEF CompareRectangle, AppIdle
    <3>2. setter' = "compare" =>
            /\ w.pos = window.pos /\ w.size.width = window.size.width
            /\ differed' => differed
      BY <2>2 DEF CompareRectangle
    <3> QED BY <2>0, <3>1, <3>2 DEF RectInv, RectangleKept
  <2>3. CASE CompareHeight
    <3>1. /\ setter = "compare" /\ setter' \in {"idle", "differs"}
          /\ sizeOverride' = sizeOverride
      BY <2>3 DEF CompareHeight
    <3>2. setter' = "idle" => (differed' => differed)
      BY <2>3 DEF CompareHeight
    <3>3. RectangleKept'
      BY <2>3, ComparedWindow
    <3> QED BY <2>0, <3>1, <3>2, <3>3 DEF RectInv
  <2>4. CASE SetRectangle
    BY <2>0, <2>4 DEF SetRectangle, RectInv, RectangleKept, choice
  <2>5. ASSUME NEW size \in WindowSizes, ModeEvent(size)
        PROVE  RectInv'
    <3>1. UNCHANGED <<rectangle, differed, sizeOverride, setter>>
      BY <2>5 DEF ModeEvent, choice
    <3>2. CASE sizeOverride
      BY <2>0, <2>1, <2>5, <3>1, <3>2 DEF ModeEvent
    <3>3. CASE ~sizeOverride
      <4>1. window' = [window EXCEPT !.size = size] /\ window \in Windows
        BY <2>5, <3>3 DEF ModeEvent, RectInv, ExtTypeOK
      <4>2. window'.pos = window.pos
        BY <4>1 DEF Windows
      <4>3. differed => setter = "differs"
        BY <3>3 DEF RectInv
      <4> QED BY <2>0, <3>1, <4>2, <4>3 DEF RectInv, RectangleKept
    <3> QED BY <3>2, <3>3
  <2>6. CASE SetterTellsVpc \/ SetterUpdates
    BY <2>1, <2>6 DEF SetterTellsVpc, SetterUpdates, Update, choice
  <2>7. CASE \/ \E available \in SUBSET {"vpc", "output"} : ExtStart(available)
             \/ ExtStop \/ ExtStopped
    BY <2>1, <2>7 DEF ExtStart, ExtStop, ExtStopped, geometry, choice
  <2>8. CASE DispatchThread \/ XformEvent
    BY <2>1, <2>8 DEF DispatchThread, DispatchLoop, DispatchFails, DispatcherUpdates, Update,
                XformEvent, geometry, choice
  <2>9. CASE UNCHANGED extVars
    BY <2>1, <2>9 DEF extVars
  <2>10. QED
    BY <2>2, <2>3, <2>4, <2>5, <2>6, <2>7, <2>8, <2>9 DEF ExtNext, ExtEvents, ExtApplication
<1>3. RectInv => RectangleKept
  BY DEF RectInv
<1>4. QED
  BY <1>1, <1>2, <1>3, PTL DEF ExtSpec

-----------------------------------------------------------------------------
\* The compositor's surface has the window's geometry, whichever thread told it last,
\* except while set_property() is about to tell it (start(), set_property(),
\* outputHandleMode(); the unlocked call after the locked change).
THEOREM VpcFollowsWindowTheorem == ExtSpec => []VpcFollowsWindow
<1>1. ExtInit => VpcFollowsWindow
  BY DEF ExtInit, VpcFollowsWindow
<1>2. VpcFollowsWindow /\ [ExtNext]_extVars => VpcFollowsWindow'
  <2> SUFFICES ASSUME VpcFollowsWindow, [ExtNext]_extVars PROVE VpcFollowsWindow'
    OBVIOUS
  <2> USE DEF VpcFollowsWindow
  <2>1. ASSUME NEW available \in SUBSET {"vpc", "output"}, ExtStart(available)
        PROVE  VpcFollowsWindow'
    <3>1. vpcSurface' => vpcGeometry' = StartGeometry(window)
      BY <2>1 DEF ExtStart
    <3>2. StartGeometry(window) = window
            \/ (StartGeometry(window) = Unset /\ window.size = DefaultSize)
      BY DEF StartGeometry
    <3>3. window' = window
      BY <2>1 DEF ExtStart
    <3>4. QED
      BY <3>1, <3>2, <3>3
  <2>2. CASE ExtStopped
    BY <2>2 DEF ExtStopped
  <2>3. CASE SetRectangle
    BY <2>3 DEF SetRectangle
  <2>4. CASE SetterTellsVpc
    BY <2>4 DEF SetterTellsVpc, objects
  <2>5. CASE SetterUpdates
    BY <2>5 DEF SetterUpdates, Update, objects
  <2>6. ASSUME NEW size \in WindowSizes, ModeEvent(size)
        PROVE  VpcFollowsWindow'
    <3>1. CASE sizeOverride
      BY <2>6, <3>1 DEF ModeEvent, objects
    <3>2. CASE ~sizeOverride
      BY <2>6, <3>2 DEF ModeEvent, objects
    <3>3. QED
      BY <3>1, <3>2
  <2>7. CASE ExtStop \/ CompareHeight \/ \E w \in Windows : CompareRectangle(w)
    <3>1. CASE ExtStop
      BY <3>1 DEF ExtStop, objects, geometry
    <3>2. ASSUME NEW w \in Windows, CompareRectangle(w)
          PROVE  VpcFollowsWindow'
      BY <3>2 DEF CompareRectangle, AppIdle, objects
    <3>3. CASE CompareHeight
      <4>1. setter = "compare" /\ setter' # "vpc"
            /\ UNCHANGED <<window, vpcGeometry, vpcSurface>>
        BY <3>3 DEF CompareHeight, objects
      <4> QED BY <4>1
    <3>4. QED
      BY <2>7, <3>1, <3>2, <3>3
  <2>8. CASE DispatchThread \/ XformEvent
    BY <2>8 DEF DispatchThread, DispatchLoop, DispatchFails, DispatcherUpdates, Update,
                XformEvent, objects, geometry
  <2>9. CASE UNCHANGED extVars
    BY <2>9 DEF extVars
  <2>10. QED
    BY <2>1, <2>2, <2>3, <2>4, <2>5, <2>6, <2>7, <2>8, <2>9
       DEF ExtNext, ExtEvents, ExtApplication
<1>3. QED
  BY <1>1, <1>2, PTL DEF ExtSpec

-----------------------------------------------------------------------------
(* aesmptsdec: bytes and blocks.                                           *)

\* XOR twice with the same bytes gives back what was there.
LEMMA XorTwice ==
  ASSUME NEW D, NEW x \in [D -> BOOLEAN], NEW y, \A i \in D : y[i] \in BOOLEAN
  PROVE  Xor(x, y) \in [D -> BOOLEAN] /\ Xor(Xor(x, y), y) = x
<1>1. Xor(x, y) = [i \in D |-> x[i] # y[i]]
  BY DEF Xor
<1>2. Xor(x, y) \in [D -> BOOLEAN] /\ \A i \in D : Xor(x, y)[i] = (x[i] # y[i])
  BY <1>1
<1>3. DOMAIN Xor(x, y) = D
  BY <1>2
<1>4. Xor(Xor(x, y), y) = [i \in D |-> Xor(x, y)[i] # y[i]]
  BY <1>3 DEF Xor
<1>5. \A i \in D : (Xor(x, y)[i] # y[i]) = x[i]
  <2> SUFFICES ASSUME NEW i \in D PROVE (Xor(x, y)[i] # y[i]) = x[i]
    OBVIOUS
  <2>1. x[i] \in BOOLEAN /\ y[i] \in BOOLEAN
    OBVIOUS
  <2>2. Xor(x, y)[i] = (x[i] # y[i])
    BY <1>2
  <2> DEFINE a == x[i]
             b == y[i]
             c == Xor(x, y)[i]
  <2>3. a \in {TRUE, FALSE} /\ b \in {TRUE, FALSE} /\ c = (a # b)
    BY <2>1, <2>2
  <2> HIDE DEF a, b, c
  <2>4. (c # b) = a
    BY <2>3
  <2> QED BY <2>4 DEF a, b, c
<1>6. x = [i \in D |-> x[i]]
  OBVIOUS
<1> QED BY <1>2, <1>4, <1>5, <1>6

LEMMA XorBlocks ==
  ASSUME NEW x \in Block, NEW y \in Block
  PROVE  Xor(x, y) \in Block /\ Xor(Xor(x, y), y) = x
<1>1. x \in [1..BlockSize -> BOOLEAN] /\ \A i \in 1..BlockSize : y[i] \in BOOLEAN
  BY DEF Block
<1> QED BY <1>1, XorTwice DEF Block

\* A block of zeros changes nothing.
LEMMA XorZero == \A x \in Block : Xor(x, Zero) = x
<1> SUFFICES ASSUME NEW x \in Block PROVE Xor(x, Zero) = x
  OBVIOUS
<1>1. DOMAIN x = 1..BlockSize /\ x = [i \in 1..BlockSize |-> x[i]]
  BY DEF Block
<1>2. \A i \in 1..BlockSize : x[i] \in {TRUE, FALSE} /\ Zero[i] = FALSE
  BY DEF Block, Zero
<1>3. \A i \in 1..BlockSize : (x[i] # Zero[i]) = x[i]
  BY <1>2
<1>4. Xor(x, Zero) = [i \in 1..BlockSize |-> x[i] # Zero[i]]
  BY <1>1 DEF Xor
<1> QED BY <1>1, <1>3, <1>4

\* Deciphering gives back what was enciphered.
LEMMA DecipherInverts ==
  ASSUME NEW k \in Keys, NEW x \in Block
  PROVE  Decipher(k, Cipher[k][x]) = x
<1>1. \A u, v \in Block : Cipher[k][u] = Cipher[k][v] => u = v
  BY CipherAssumption
<1>2. Decipher(k, Cipher[k][x]) \in Block
      /\ Cipher[k][Decipher(k, Cipher[k][x])] = Cipher[k][x]
  BY DEF Decipher
<1> QED BY <1>1, <1>2

-----------------------------------------------------------------------------
(* One payload.                                                            *)

LEMMA CipherTypes ==
  /\ BlockSize \in Nat \ {0} /\ PacketSize \in Nat /\ Ivs \subseteq Block /\ Zero \in Block
  /\ \A k \in Keys : \A x \in Block : Cipher[k][x] \in Block
BY CipherAssumption DEF Zero, Block

\* A payload of size bytes is its whole blocks and less than one block more.
LEMMA PayloadShape ==
  ASSUME NEW size \in Nat, NEW p \in Payloads(size)
  PROVE  /\ p = [blocks |-> p.blocks, residue |-> p.residue]
         /\ size \div BlockSize \in Nat /\ size % BlockSize \in Nat
         /\ size % BlockSize < BlockSize
         /\ p.blocks \in [1..size \div BlockSize -> Block] /\ p.blocks \in Seq(Block)
         /\ p.residue \in [1..size % BlockSize -> BOOLEAN]
<1>1. BlockSize \in Nat /\ BlockSize > 0
  BY CipherTypes
<1>2. size \div BlockSize \in Nat /\ size % BlockSize \in Nat /\ size % BlockSize < BlockSize
  BY <1>1
<1>3. /\ p = [blocks |-> p.blocks, residue |-> p.residue]
      /\ p.blocks \in [1..size \div BlockSize -> Block]
      /\ p.residue \in [1..size % BlockSize -> BOOLEAN]
  BY DEF Payloads
<1>4. p.blocks \in Seq(Block)
  BY <1>2, <1>3
<1> QED BY <1>2, <1>3, <1>4

\* What CBC adds to a block is a block.
LEMMA PreviousIsBlock ==
  ASSUME NEW iv \in Block, NEW blocks \in Seq(Block), NEW j \in DOMAIN blocks
  PROVE  Previous(iv, blocks, j) \in Block
BY DEF Previous

\* Clearing block by block gives back the blocks the sender started from: block j needs
\* block j - 1 as it came in, never as it was cleared.
LEMMA BlocksInvert ==
  ASSUME NEW k \in Keys, NEW iv \in Block, NEW size \in Nat,
         NEW clear \in Payloads(size), NEW payload \in Payloads(size),
         Scrambles(k, iv, clear, payload)
  PROVE  DecryptInPlace(k, iv, payload.blocks) = clear.blocks
<1> DEFINE n == size \div BlockSize
           D == DecryptInPlace(k, iv, payload.blocks)
<1>1. /\ clear.blocks \in [1..n -> Block] /\ payload.blocks \in [1..n -> Block]
      /\ payload.blocks \in Seq(Block)
  BY PayloadShape
<1>2. D = [j \in 1..n |-> Xor(Decipher(k, payload.blocks[j]), Previous(iv, payload.blocks, j))]
  BY <1>1 DEF DecryptInPlace
<1>3. ASSUME NEW j \in 1..n
      PROVE  Xor(Decipher(k, payload.blocks[j]), Previous(iv, payload.blocks, j)) = clear.blocks[j]
  <2> DEFINE before == Previous(iv, payload.blocks, j)
             mixed == Xor(clear.blocks[j], before)
  <2>1. before \in Block
    BY <1>1, PreviousIsBlock
  <2>2. clear.blocks[j] \in Block /\ payload.blocks[j] = Cipher[k][mixed]
    BY <1>1 DEF Scrambles
  <2> HIDE DEF before
  <2>3. mixed \in Block /\ Xor(mixed, before) = clear.blocks[j]
    BY <2>1, <2>2, XorBlocks
  <2> HIDE DEF mixed
  <2>4. Decipher(k, payload.blocks[j]) = mixed
    BY <2>2, <2>3, DecipherInverts
  <2> QED BY <2>3, <2>4 DEF before
<1>4. clear.blocks = [j \in 1..n |-> clear.blocks[j]]
  BY <1>1
<1> QED BY <1>2, <1>3, <1>4

\* The element's factor for the residue is the sender's block, enciphered in CBC mode.
LEMMA ResidueFactorMixes ==
  ASSUME NEW k \in Keys, NEW iv \in Block, NEW blocks \in Seq(Block)
  PROVE  /\ LastBlock(iv, blocks) \in Block
         /\ ResidueFactor(Processor(k, iv), blocks) =
              Cipher[k][Xor(LastBlock(iv, blocks), iv)]
<1>1. CASE blocks = <<>>
  BY <1>1 DEF ResidueFactor, Processor, LastBlock, EncryptOne
<1>2. CASE blocks # <<>>
  <2>1. blocks[Len(blocks)] \in Block
    BY <1>2
  <2> QED BY <1>2, <2>1 DEF ResidueFactor, Processor, LastBlock, EncryptOne
<1> QED BY <1>1, <1>2

\* With a vector of zero the element leaves the residue as the sender had it.
LEMMA ResidueClear ==
  ASSUME NEW k \in Keys, NEW blocks \in Seq(Block),
         NEW r \in Nat, r < BlockSize, NEW residue \in [1..r -> BOOLEAN]
  PROVE  ResidueLeft(k, Zero, blocks, residue) = residue
<1> DEFINE block == LastBlock(Zero, blocks)
           sent == Cipher[k][block]
<1>1. Zero \in Block /\ BlockSize \in Nat
  BY CipherTypes
<1>2. block \in Block
  BY <1>1, ResidueFactorMixes
<1> HIDE DEF block
<1>3. Xor(block, Zero) = block /\ sent \in Block
  BY <1>2, XorZero, CipherTypes
<1>4. \A i \in 1..r : sent[i] \in BOOLEAN
  BY <1>1, <1>3 DEF Block
<1>5. ResidueLeft(k, Zero, blocks, residue) = Xor(Xor(residue, sent), sent)
  BY <1>3 DEF ResidueLeft, block
<1> HIDE DEF sent
<1>6. Xor(Xor(residue, sent), sent) = residue
  BY <1>4, XorTwice
<1> QED BY <1>5, <1>6

\* The element clears every whole block that the sender scrambled, for payloads of any
\* size, any vector, any block size and any block cipher.  The residue is clear when the
\* vector is zero, and else mixed with two enciphered blocks (process_packet(),
\* process_residual_termination_block(), compute_srtb_xor_factor()).
THEOREM ProcessPayloadInverts ==
  ASSUME NEW k \in Keys, NEW iv \in Block, NEW size \in Nat,
         NEW clear \in Payloads(size), NEW payload \in Payloads(size),
         Scrambles(k, iv, clear, payload)
  PROVE  /\ ProcessPayload(Processor(k, iv), payload) =
              [blocks |-> clear.blocks,
               residue |-> ResidueLeft(k, iv, payload.blocks, clear.residue)]
         /\ iv = Zero => ResidueLeft(k, iv, payload.blocks, clear.residue) = clear.residue
<1> DEFINE r == size % BlockSize
           block == LastBlock(iv, payload.blocks)
           factor == ResidueFactor(Processor(k, iv), payload.blocks)
<1>1. /\ clear.residue \in [1..r -> BOOLEAN] /\ r \in Nat /\ r < BlockSize
      /\ payload.blocks \in Seq(Block)
  BY PayloadShape
<1>2. payload.residue = Xor(clear.residue, Cipher[k][block])
  BY DEF Scrambles
<1>3. factor = Cipher[k][Xor(block, iv)]
  BY <1>1, ResidueFactorMixes
<1>4. Xor(payload.residue, factor) = ResidueLeft(k, iv, payload.blocks, clear.residue)
  BY <1>2, <1>3 DEF ResidueLeft
<1>5. DecryptInPlace(k, iv, payload.blocks) = clear.blocks
  BY BlocksInvert
<1>6. ProcessPayload(Processor(k, iv), payload) =
        [blocks |-> DecryptInPlace(k, iv, payload.blocks), residue |-> Xor(payload.residue, factor)]
  BY DEF ProcessPayload, Processor
<1>7. iv = Zero => ResidueLeft(k, iv, payload.blocks, clear.residue) = clear.residue
  BY <1>1, ResidueClear
<1> QED BY <1>4, <1>5, <1>6, <1>7

-----------------------------------------------------------------------------
(* The element.                                                            *)

\* What is known of the packet that went through last.
AesInv == AesTypeOK /\ DecryptInverts /\ (last # NotSet => processor # NotSet)

\* A step of the application leaves no packet to judge, or the processor as it is.
LEMMA AesApplication ==
  ASSUME AesInv,
         SetParameter \/ (\E known \in BOOLEAN : SetMode(known))
           \/ AesStart \/ AesStartCrashes \/ AesStop
  PROVE  AesInv'
<1> USE DEF AesInv
<1>1. CASE SetParameter \/ \E known \in BOOLEAN : SetMode(known)
  <2>1. last' = NotSet
    BY <1>1 DEF SetParameter, SetMode
  <2>2. AesTypeOK'
    BY <1>1 DEF SetParameter, SetMode, AesTypeOK
  <2> QED BY <2>1, <2>2 DEF DecryptInverts
<1>2. CASE AesStart
  <2>1. last' = NotSet
    BY <1>2 DEF AesStart
  <2>2. aesKey \in Keys /\ aesIv \in Ivs
    BY <1>2 DEF AesStart, AesTypeOK
  <2>3. /\ Processor(aesKey, aesIv).key = aesKey /\ Processor(aesKey, aesIv).iv = aesIv
    BY DEF Processor
  <2>4. /\ processor' = Processor(aesKey, aesIv) /\ aesKey' = NotSet /\ aesIv' = NotSet
        /\ aesStarts' = aesStarts + 1 /\ UNCHANGED <<modeKnown, crashed>>
    BY <1>2 DEF AesStart
  <2>5. AesTypeOK'
    BY <2>2, <2>3, <2>4 DEF AesTypeOK
  <2> QED BY <2>1, <2>5 DEF DecryptInverts
<1>3. CASE AesStartCrashes
  <2>1. UNCHANGED <<last, processor>> /\ AesTypeOK'
    BY <1>3 DEF AesStartCrashes, AesTypeOK
  <2> QED BY <2>1 DEF DecryptInverts
<1>4. CASE AesStop
  <2>1. last' = NotSet /\ AesTypeOK'
    BY <1>4 DEF AesStop, AesTypeOK
  <2> QED BY <2>1 DEF DecryptInverts
<1> QED BY <1>1, <1>2, <1>3, <1>4

\* A packet that goes through is clear afterwards.
LEMMA AesTransform ==
  ASSUME AesInv, NEW h \in SentHeaders,
         NEW size, size = IF BadField(h) \/ h.afc = 2 THEN 0 ELSE PayloadSize(h),
         NEW clear \in Payloads(size), NEW payload \in Payloads(size),
         Transform(h, clear, payload)
  PROVE  AesInv'
<1> DEFINE packet == WithPayload(h, payload)
           result == [clear |-> clear, received |-> packet,
                      out |-> ProcessPacket(processor, packet)]
<1>1. /\ processor # NotSet /\ UNCHANGED <<modeKnown, aesKey, aesIv, processor, crashed, aesStarts>>
      /\ last' = result
      /\ IF h.scrambled THEN Scrambles(processor.key, processor.iv, clear, payload)
                        ELSE payload = clear
  BY DEF Transform
<1>2. AesTypeOK'
  BY <1>1 DEF AesTypeOK, AesInv
<1>3. /\ processor.key \in Keys /\ processor.iv \in Block
      /\ processor = Processor(processor.key, processor.iv)
  BY <1>1, CipherTypes DEF AesInv, AesTypeOK
<1>4. /\ last'.clear = clear /\ last'.received = packet
      /\ last'.out = ProcessPacket(processor, packet)
  BY <1>1
<1>5. CASE LeftAlone(packet)
  <2>1. last'.out = packet
    BY <1>4, <1>5 DEF ProcessPacket
  <2> HIDE DEF packet
  <2> QED BY <1>1, <1>2, <1>4, <1>5, <2>1 DEF AesInv, DecryptInverts
<1>6. CASE ~LeftAlone(packet)
  <2>1. h \in Headers /\ packet.payload = payload /\ packet.scrambled = h.scrambled
        /\ packet.afc = h.afc /\ packet.afLength = h.afLength
    BY DEF WithPayload, SentHeaders
  <2>2. h.scrambled /\ h.afc # 2 /\ ~BadField(h)
    BY <1>6, <2>1 DEF LeftAlone, BadField
  <2>3. size \in Nat
    <3>1. size = PayloadSize(h)
      BY <2>2
    <3>2. h.afLength \in Nat /\ PacketSize \in Nat /\ PacketSize > 5
          /\ (h.afc # 1 => h.afLength <= PacketSize - 6)
      BY <2>1, <2>2, CipherAssumption DEF Headers, BadField, MaxAfLength, HeaderSize
    <3> QED BY <3>1, <3>2 DEF PayloadSize, HeaderSize
  <2>4. Scrambles(processor.key, processor.iv, clear, payload)
    BY <1>1, <2>2
  <2> DEFINE left == ResidueLeft(processor.key, processor.iv, payload.blocks, clear.residue)
  <2>5. /\ ProcessPayload(processor, payload) = [blocks |-> clear.blocks, residue |-> left]
        /\ processor.iv = Zero => left = clear.residue
    BY <1>3, <2>3, <2>4, ProcessPayloadInverts
  <2>6. last'.out = [packet EXCEPT !.scrambled = FALSE,
                                   !.payload = ProcessPayload(processor, payload)]
    BY <1>4, <1>6, <2>1 DEF ProcessPacket
  <2> HIDE DEF packet
  <2>7. DecryptInverts'
    BY <1>1, <1>4, <1>6, <2>1, <2>5, <2>6 DEF DecryptInverts
  <2> QED BY <1>1, <1>2, <2>7 DEF AesInv
<1> QED BY <1>5, <1>6

\* Whatever the application sets and whenever, the whole blocks of a packet the sender
\* scrambled come out clear, its residue too when the vector is zero and else mixed with
\* two enciphered blocks, and any other packet as it came, for every key, vector, block
\* size, packet layout and block cipher (gst_aesmptsdecrypt_start(), process_packet()).
THEOREM DecryptInvertsTheorem == AesSpec => []DecryptInverts
<1>1. AesInit => AesInv
  <2>1. AesInit => last = NotSet /\ processor = NotSet /\ aesStarts \in Nat
    BY DEF AesInit
  <2>2. AesInit => AesTypeOK
    BY <2>1, Zenon DEF AesInit, AesTypeOK
  <2> QED BY <2>1, <2>2 DEF AesInv, DecryptInverts
<1>2. AesInv /\ [AesNext]_aesVars => AesInv'
  <2>1. AesInv /\ UNCHANGED aesVars => AesInv'
    BY DEF AesInv, AesTypeOK, DecryptInverts, aesVars
  <2>2. ASSUME AesInv, NEW h \in SentHeaders,
               \E clear, payload \in
                    Payloads(IF BadField(h) \/ h.afc = 2 THEN 0 ELSE PayloadSize(h)) :
                  Transform(h, clear, payload)
        PROVE  AesInv'
    BY <2>2, AesTransform
  <2> QED BY <2>1, <2>2, AesApplication DEF AesNext
<1>3. AesInv => DecryptInverts
  BY DEF AesInv
<1> QED BY <1>1, <1>2, <1>3, PTL DEF AesSpec
=============================================================================
