---------------------------- MODULE WaveDataFormat --------------------------
(***************************************************************************)
(* HjkDataFormat::waveDataFormat for the nodes of the DLL                  *)
(* (hjkUsbXferDll/HjkDataFormat.cpp), one statement a step, and the use    *)
(* testFormat makes of it: nodes are formatted one after the other into a  *)
(* frame until it is full.  HjkUsbXfer takes it as split, transpose,       *)
(* store and looks at who else touches the node; this module looks at the  *)
(* words and the bits.                                                     *)
(*                                                                         *)
(* An access beyond malloc'd memory sets wild; a wild read returns any     *)
(* word, a wild write lands in nobody's memory.                            *)
(***************************************************************************)
EXTENDS Integers, Sequences, FiniteSetsExt

CONSTANTS
  Bits,          \* bits of a word, words of a group, DAC_BITS (32)
  CounterMod,    \* the loop counter is an unsigned char (256)
  PktWords,      \* MaxPktSize / sizeof(__int32): words of a packet
  MaxFrameWords, \* 0x400000 / sizeof(__int32), the cap on a frame
  Inputs,        \* the nodes LabVIEW may submit, functions from 0 .. chNum-1 to Word
  MaxCalls       \* bound on the nodes formatted in one behaviour

Word == 0 .. 2 ^ Bits - 1
Length(d) == Max(DOMAIN d) + 1

ASSUME FormatAssumption ==
  /\ Bits \in Nat \ {0} /\ CounterMod \in Nat \ {0}
  /\ PktWords \in Nat \ {0} /\ MaxFrameWords \in Nat \ {0} /\ MaxCalls \in Nat
  /\ \A d \in Inputs : Length(d) \in Nat \ {0} /\ d \in [0 .. Length(d) - 1 -> Word]

\* The cap is beyond the frames of all channel counts for which the loop ends: a
\* bulk packet has 1024 bytes, 16384 with bursts counted, and 4096 * 255 < 2^20.
ASSUME CapAssumption == PktWords * (CounterMod - 1) <= MaxFrameWords

VARIABLES
  datalen,              \* words of a node, set once from chNum
  pc, i,                \* where waveDataFormat is, and its loop counter
  node,                 \* inNode->data, formatted in place
  oddGroup, evenGroup,
  frame, index,         \* midNode->data and the fill level, in words
  wild,                 \* history: an access went beyond malloc'd memory
  submitted             \* history: the nodes as they were submitted

vars == <<datalen, pc, i, node, oddGroup, evenGroup, frame, index, wild, submitted>>

Half == datalen \div 2

\* initHjkUSBXfer: MaxPktSize * chNum bytes, at most 4 MB.
FrameWords(n) == IF PktWords * n > MaxFrameWords THEN MaxFrameWords ELSE PktWords * n

Init ==
  /\ datalen \in {Length(d) : d \in Inputs}
  /\ pc = "idle" /\ i = 0 /\ node = [w \in 0 .. datalen - 1 |-> 0]
  /\ oddGroup = [w \in 0 .. Half - 1 |-> 0] /\ evenGroup = [w \in 0 .. Half - 1 |-> 0]
  /\ frame = [w \in 0 .. FrameWords(datalen) - 1 |-> 0] /\ index = 0
  /\ wild = FALSE /\ submitted = <<>>

-----------------------------------------------------------------------------
\* Deliberate errors, each a variant of a definition below that the properties
\* have to notice.
NarrowCounter == (i + 1) % (CounterMod \div 2)
WideCounter == i + 1
FitsStrictly == index + datalen < FrameWords(datalen)
EvenAfterOdd == Bits + 1
ShiftsDown(in) ==
  [k \in 0 .. Bits - 1 |-> MapThenSumSet(LAMBDA j : ((in[j] \div 2 ^ k) % 2) * 2 ^ j, 0 .. Bits - 1)]
StoresAtStart == 0

-----------------------------------------------------------------------------
\* transpositionInt: out[k] |= ((in[j] << k) & padBit) >> j, for all j; padBit is
\* the top bit.
transpositionInt(in) ==
  [k \in 0 .. Bits - 1 |->
     MapThenSumSet(LAMBDA j : (((in[j] * 2 ^ k) % 2 ^ Bits) \div 2 ^ (Bits - 1)) * 2 ^ (Bits - 1 - j),
                   0 .. Bits - 1)]

\* What a read of Bits words from a group of Half words can see.
Reads(group) ==
  {g \in [0 .. Bits - 1 -> Word] : \A w \in DOMAIN group \cap (0 .. Bits - 1) : g[w] = group[w]}

\* data with the words of out written from position at on.
Written(data, at, out) ==
  [w \in DOMAIN data |-> IF w - at \in DOMAIN out THEN out[w - at] ELSE data[w]]

\* testFormat pulls a node while the frame is not full.
Format ==
  /\ pc = "idle" /\ index < FrameWords(datalen) /\ Len(submitted) < MaxCalls
  /\ \E d \in Inputs : Length(d) = datalen /\ node' = d /\ submitted' = Append(submitted, d)
  /\ pc' = "split" /\ i' = 0
  /\ UNCHANGED <<datalen, oddGroup, evenGroup, frame, index, wild>>

InLoop == i < datalen
NextCount == (i + 1) % CounterMod

Split ==
  /\ pc = "split" /\ InLoop
  /\ IF i % 2 = 0
       THEN oddGroup' = Written(oddGroup, i \div 2, [z \in {0} |-> node[i]]) /\ UNCHANGED evenGroup
       ELSE evenGroup' = Written(evenGroup, i \div 2, [z \in {0} |-> node[i]]) /\ UNCHANGED oddGroup
  /\ wild' = (wild \/ i \div 2 >= Half \/ i >= datalen)
  /\ i' = NextCount
  /\ UNCHANGED <<datalen, pc, node, frame, index, submitted>>

SplitDone ==
  /\ pc = "split" /\ ~InLoop /\ pc' = "odd"
  /\ UNCHANGED <<datalen, i, node, oddGroup, evenGroup, frame, index, wild, submitted>>

TransposeOdd ==
  /\ pc = "odd" /\ pc' = "even"
  /\ \E g \in Reads(oddGroup) : node' = Written(node, 0, transpositionInt(g))
  /\ wild' = (wild \/ Bits > Half \/ Bits > datalen)
  /\ UNCHANGED <<datalen, i, oddGroup, evenGroup, frame, index, submitted>>

EvenAt == Half

TransposeEven ==
  /\ pc = "even" /\ pc' = "store"
  /\ \E g \in Reads(evenGroup) : node' = Written(node, EvenAt, transpositionInt(g))
  /\ wild' = (wild \/ Bits > Half \/ EvenAt + Bits > datalen)
  /\ UNCHANGED <<datalen, i, oddGroup, evenGroup, frame, index, submitted>>

Fits == index + datalen <= FrameWords(datalen)
StoreAt == index

\* A node that does not fit is dropped and 0 returned.
Store ==
  /\ pc = "store" /\ pc' = "idle"
  /\ IF Fits
       THEN frame' = Written(frame, StoreAt, node) /\ index' = index + datalen
       ELSE UNCHANGED <<frame, index>>
  /\ UNCHANGED <<datalen, i, node, oddGroup, evenGroup, wild, submitted>>

\* testFormat queues the full frame and starts another.
Flush ==
  /\ pc = "idle" /\ index >= FrameWords(datalen)
  /\ index' = 0
  /\ UNCHANGED <<datalen, pc, i, node, oddGroup, evenGroup, frame, wild, submitted>>

WaveDataFormat == Split \/ SplitDone \/ TransposeOdd \/ TransposeEven \/ Store

Next == Format \/ WaveDataFormat \/ Flush

\* The thread keeps running; nothing makes LabVIEW call again.
Spec == Init /\ [][Next]_vars /\ WF_vars(WaveDataFormat) /\ WF_vars(Flush)

-----------------------------------------------------------------------------
TypeOK ==
  /\ datalen \in {Length(d) : d \in Inputs}
  /\ pc \in {"idle", "split", "odd", "even", "store"} /\ i \in 0 .. CounterMod - 1
  /\ node \in [0 .. datalen - 1 -> Word]
  /\ oddGroup \in [0 .. Half - 1 -> Word] /\ evenGroup \in [0 .. Half - 1 -> Word]
  /\ frame \in [0 .. FrameWords(datalen) - 1 -> Word] /\ index \in 0 .. FrameWords(datalen)
  /\ wild \in BOOLEAN /\ submitted \in Seq(Inputs)

\* The bit matrix of a group, transposed: by definition, without shifts.  Row 0 is
\* the first word and column 0 the top bit.
Bit(word, col) == (word \div 2 ^ (Bits - 1 - col)) % 2
IsTranspose(out, in) == \A r, c \in 0 .. Bits - 1 : Bit(out[r], c) = Bit(in[c], r)

\* What a formatted node must be: the channels 0, 2, 4, ... transposed, then the
\* channels 1, 3, 5, ... transposed.
Formatted(out, d) ==
  /\ IsTranspose([r \in 0 .. Bits - 1 |-> out[r]], [w \in 0 .. Bits - 1 |-> d[2 * w]])
  /\ IsTranspose([r \in 0 .. Bits - 1 |-> out[Bits + r]], [w \in 0 .. Bits - 1 |-> d[2 * w + 1]])

WholeGroups == datalen = 2 * Bits

\* With as many channels as two groups hold (64 in the DLL), the node is formatted
\* in place: the groups are copied out before the first word is overwritten.
FormattedInPlace ==
  WholeGroups /\ pc = "store" => Formatted(node, submitted[Len(submitted)])

\* With as many channels as two groups hold, no access leaves its buffer, although
\* transpositionInt never looks at datalen (HjkDataFormat.cpp:111-115).
InBounds == WholeGroups => ~wild

\* The frame holds the nodes since the last flush, side by side.
NodesInFrame == index \div datalen
FrameHoldsNodes ==
  WholeGroups =>
    \A k \in 1 .. NodesInFrame :
      LET n == Len(submitted) - (IF pc = "idle" THEN 0 ELSE 1) - NodesInFrame + k
      IN  Formatted([w \in 0 .. datalen - 1 |-> frame[(k - 1) * datalen + w]], submitted[n])

\* A node that testFormat admits into the frame (index below the frame's length)
\* always fits: initHjkUSBXfer makes the frame a whole number of nodes, and the 4 MB
\* cap that would spoil it is beyond the channel counts for which the loop ends.
NeverDropped == pc = "store" => Fits

\* waveDataFormat returns whenever the channel count is below the range of its
\* 8-bit loop counter (HjkDataFormat.cpp:58).
Returns == datalen < CounterMod /\ pc = "split" ~> pc = "idle"
=============================================================================
