----------------------------- MODULE Catalogue -----------------------------
(***************************************************************************)
(* The decoder catalogues of the tab (decoders/*.ts): for every profile    *)
(* the CVs its list offers, with what the editor accepts for each, and how *)
(* the profile orders a batch of writes.                                   *)
(*                                                                         *)
(* An item keeps what the program decides by: the numbers the editor       *)
(* accepts (within min and max, which are 0 and 255 when absent, and among *)
(* the allowed values or options), the documented bits, the default and    *)
(* whether it may be edited.  Texts, hints and groups are left out.        *)
(***************************************************************************)
EXTENDS Integers, Sequences, FiniteSets, SequencesExt

CONSTANT None  \* no default

Whole == {}  \* allowedValues or options are absent
Item(cv, min, max, vals, bits, d, ro) ==
  [cv |-> cv, min |-> min, max |-> max, vals |-> vals, bits |-> bits, def |-> d,
   readOnly |-> ro]

\* One item for each of cvs.
Num(cvs, lo, hi, d) == [i \in DOMAIN cvs |-> Item(cvs[i], lo, hi, Whole, {}, d, FALSE)]
Byte(cvs, d) == Num(cvs, 0, 255, d)
ReadOnly(cvs, d) == [i \in DOMAIN cvs |-> Item(cvs[i], 0, 255, Whole, {}, d, TRUE)]
Bits(cv, bits, d) == <<Item(cv, 0, 255, Whole, bits, d, FALSE)>>
Options(cv, vals, d) == <<Item(cv, 0, 255, vals, {}, d, FALSE)>>
Effects(cvs, max, vals, d) == [i \in DOMAIN cvs |-> Item(cvs[i], 0, max, vals, {}, d, FALSE)]
\* Consecutive CVs with a default each.
Varied(start, defaults, hi) ==
  [i \in DOMAIN defaults |-> Item(start + i - 1, 0, hi, Whole, {}, defaults[i], FALSE)]

Run(start, n) == [i \in 1..n |-> start + i - 1]
Odd(start, n) == [i \in 1..n |-> start + 2 * (i - 1)]

-----------------------------------------------------------------------------
\* ZIMO MS and MN.

\* A code and its direction: both, forward or reverse.
ZimoEffects ==
  {76, 116, 120, 124, 128, 132, 135}
    \cup {4 * code + dir : code \in 0..18 \cup {20, 22, 23, 24, 26, 27, 28}, dir \in 0..2}

\* Sample, volume and loop of F0 (570), F1-F19 (513) and F20-F28 (673).
FunctionSounds ==
  FlattenSeq([i \in 1..29 |->
    LET cv == IF i = 1 THEN 570 ELSE IF i <= 20 THEN 513 + 3 * (i - 2) ELSE 673 + 3 * (i - 21)
    IN  Byte(<<cv>>, None) \o Byte(<<cv + 1>>, 0) \o Byte(<<cv + 2>>, None)])

MutSwissMapping == Byte(Run(430, 14 * 6), 0) \o Byte(Run(800, 4 * 6), 0)

\* 13 groups of six CVs, and four more.
SwissMapping == Byte(Run(430, 13 * 6), 0) \o Byte(Run(800, 4 * 6), 0)

ServoN(start) == Varied(start, <<49, 205, 127, 30>>, 255)

Zimo1 ==
  Num(<<1>>, 1, 127, 3) \o Num(<<2, 6>>, 1, 255, 1) \o Byte(<<3>>, 2) \o Byte(<<4>>, 1)
  \o Byte(<<5, 15, 16, 19, 20, 21>>, 0) \o ReadOnly(<<7>>, None) \o Byte(<<8>>, None)
  \o Num(<<9>>, 0, 199, 55) \o Num(<<10>>, 0, 3, 0) \o Byte(<<13>>, 67) \o Byte(<<17>>, 192)
  \o Byte(<<18>>, 128) \o Bits(12, {0, 4, 5, 6}, None) \o Bits(14, 0..6, 67)

Zimo2 ==
  Byte(<<22, 23, 24, 49, 50, 57, 60>>, 0) \o Byte(<<30, 33>>, 1) \o Byte(<<34>>, 2)
  \o Num(<<56>>, 0, 99, 55) \o Byte(<<58>>, 255) \o Byte(<<59>>, 5) \o Bits(27, {0, 1}, None)
  \o Bits(28, {0, 1, 6, 7}, 131) \o Bits(29, 0..5, 14)
  \o Varied(35, <<4, 8, 2, 4, 8, 16, 4, 8, 16, 32, 64, 128>>, 255)
  \o Varied(51, <<20, 40, 70, 110, 180>>, 255)

Zimo3 ==
  Byte(<<62, 64, 101, 106, 108, 109, 110, 111>>, 0) \o Num(<<63>>, 0, 99, 51)
  \o ReadOnly(<<65, 100>>, None) \o Num(<<66, 95>>, 0, 127, 0) \o Num(<<97>>, 0, 28, 0)
  \o Num(<<107>>, 0, 220, 0) \o Options(61, {0, 97}, 0) \o Byte(Run(67, 28), None)
  \o Bits(99, 0..2, None) \o Bits(112, {2}, 4) \o Bits(114, 0..7, 0)

Zimo4 ==
  Byte(<<115, 124, 137, 138, 139>>, 0) \o Num(<<116>>, 0, 199, 0)
  \o Num(<<117, 123>>, 0, 99, 0) \o Byte(<<125, 126>>, None) \o Num(<<134>>, 1, 14, 6)
  \o Byte(<<141>>, 20) \o Bits(118, 0..7, 0) \o Bits(119, 0..7, 0) \o Bits(120, 0..7, 0)
  \o Effects(Run(127, 6), 255, ZimoEffects, 0) \o Bits(133, {0}, 0)
  \o Options(140, {0, 1, 2, 3, 11, 12, 13}, 0)

Zimo5 ==
  Byte(<<143, 146, 155, 190, 191>>, 0) \o Byte(<<147, 148, 149, 153>>, 100)
  \o Num(<<151>>, 0, 99, 0) \o Num(<<156>>, 0, 158, 0) \o Num(<<157>>, 0, 29, 0)
  \o Num(<<161>>, 0, 3, 0) \o Byte(<<162>>, 49) \o Byte(<<163>>, 205) \o Byte(<<164>>, 127)
  \o Byte(<<165>>, 30) \o Byte(<<179>>, 128) \o Bits(144, {4}, None) \o Bits(152, 0..7, 0)
  \o Effects(Run(159, 2), 255, ZimoEffects, 0)

Zimo6 ==
  Byte(<<192, 193, 194, 268>>, 0) \o Num(<<202>>, 0, 66, 0) \o ReadOnly(<<249>>, None)
  \o Byte(<<266>>, 65) \o Byte(<<267>>, 63) \o Byte(<<269, 277>>, 10)
  \o Byte(<<275, 276>>, 220) \o Byte(<<281, 284>>, 1) \o Byte(<<282, 285>>, 30)
  \o Byte(<<283>>, 255) \o Byte(<<286>>, 20) \o Byte(<<287>>, 50)
  \o Effects(Run(195, 6), 255, ZimoEffects, 0) \o Options(201, {0, 11, 22, 33, 44, 55, 66}, 0)
  \o Effects(Run(205, 3), 255, ZimoEffects, 0)

Zimo7 ==
  Byte(<<288>>, 50) \o Num(<<308>>, 0, 28, 25) \o Num(<<309, 396, 397>>, 0, 29, 0)
  \o Byte(<<310>>, 1) \o Num(<<311>>, 0, 28, 0) \o Num(<<312>>, 0, 28, 13)
  \o Num(<<313>>, 0, 128, 114) \o Byte(<<314, 349, 353, 355>>, 0) \o Num(<<351>>, 1, 255, 128)
  \o Num(<<352>>, 1, 255, 255) \o Byte(<<376>>, 255) \o Byte(<<395>>, 64)
  \o Bits(393, {0, 1}, None) \o Bits(394, {0, 4, 6}, None) \o Byte(Run(400, 29), 0)
  \o SwissMapping

Zimo8 ==
  Byte(<<113, 135, 246>>, None) \o Byte(<<136>>, 128) \o Byte(<<178, 185, 204>>, 0)
  \o Num(<<203>>, 0, 66, 0) \o ReadOnly(<<250, 251, 252, 253>>, None) \o Byte(Run(508, 5), 0)
  \o FunctionSounds \o Byte(Odd(573, 9), None) \o Byte(Odd(574, 9) \o <<592, 600, 602, 604>>, 0)
  \o Bits(102, {0}, None) \o Bits(154, {1}, None) \o Bits(158, {1, 2, 7}, None) \o ServoN(166)
  \o ServoN(170) \o ServoN(174) \o Byte(Run(181, 4), 0) \o Byte(Run(186, 4), 0)

Zimo9 ==
  ReadOnly(<<258, 259>>, None) \o Byte(<<263, 265, 271, 272, 273, 274, 289, 294, 295>>, None)
  \o Num(<<264>>, 10, 158, 15) \o Byte(<<278, 280>>, 10) \o Byte(<<279>>, 1)
  \o Byte(<<290>>, 50) \o Byte(<<291>>, 255) \o Byte(<<292>>, 128) \o Byte(<<293>>, 100)
  \o Byte(<<296, 297, 298>>, 0) \o Num(<<299>>, 0, 100, 0) \o Num(<<339>>, 0, 28, 0)
  \o Num(<<340>>, 0, 10, 0) \o Bits(307, {0, 1, 7}, None)
  \o Varied(315, <<1, 60, 5>>, 255) \o Varied(320, <<20, 80, 5>>, 255) \o Varied(323, <<30, 90, 3>>, 255)

Zimo10 ==
  Byte(<<344, 346, 357, 358, 362, 364, 365>>, None) \o Num(<<347>>, 0, 28, 0)
  \o Num(<<348>>, 0, 31, 0) \o Byte(<<350, 360, 363, 372>>, 0) \o Num(<<354>>, 1, 255, 11)
  \o Num(<<356>>, 0, 28, None) \o Byte(<<359, 369>>, 30) \o Byte(<<361>>, 20)
  \o Byte(<<366>>, 48) \o Byte(<<367>>, 150) \o Byte(<<368>>, 100) \o Byte(<<370>>, 25)
  \o Byte(<<371>>, 15) \o Byte(Run(341, 3), 0) \o Bits(345, 0..2, 0)

Zimo11 ==
  Byte(<<373, 378, 379, 381, 382, 383, 384, 385, 387, 388, 389, 390, 391>>, 0)
  \o Num(<<374>>, 0, 29, 0) \o Num(<<375>>, 0, 10, 0) \o Num(<<380>>, 0, 28, 0)
  \o Num(<<386>>, 0, 15, 0) \o Byte(<<392, 671, 672>>, 0)

Zimo12 ==
  Byte(<<398, 399, 837, 843, 844, 830, 831, 832>>, 0) \o ReadOnly(<<768, 839, 842>>, None)
  \o Num(<<835>>, 0, 32, None) \o Byte(<<838>>, 255) \o Byte(Run(726, 12), 0)
  \o Byte(Odd(738, 3), None) \o Byte(Odd(739, 3), 0) \o Byte(Run(744, 24), None)
  \o Bits(836, {0}, None) \o Byte(Run(980, 40), None)

Zimo13 ==
  Byte(<<833>>, 0)

-----------------------------------------------------------------------------
\* ESU LokSound 5.

LokSound1 ==
  Num(<<1>>, 1, 127, 3) \o Num(<<2>>, 1, 255, 3) \o Byte(<<3>>, 28) \o Byte(<<4>>, 21)
  \o Byte(<<5>>, 255) \o Byte(<<6>>, 151) \o ReadOnly(<<7>>, None) \o Byte(<<8>>, None)
  \o Num(<<9>>, 10, 50, 40) \o Byte(<<13>>, 1) \o Num(<<14>>, 0, 63, 1)
  \o Byte(<<15, 16, 19, 21, 22, 23, 24>>, 0) \o Byte(<<17>>, 192) \o Byte(<<18>>, 3)

LokSound2 ==
  Num(<<31>>, 0, 16, 16) \o Num(<<32>>, 0, 16, 0) \o Byte(<<51, 52>>, 10) \o Byte(<<53>>, 130)
  \o Byte(<<54>>, 50) \o Byte(<<55>>, 100) \o Num(<<56>>, 1, 255, 255)
  \o Num(<<57>>, 1, 255, 30) \o Num(<<58>>, 1, 255, 20) \o Num(<<63>>, 0, 192, 128)
  \o Bits(27, 0..7, 28) \o Bits(28, {0, 1, 7}, None) \o Bits(29, 0..5, 12)
  \o Bits(47, 0..3, 15) \o Bits(49, {0, 3, 4, 5, 7}, 19) \o Bits(50, {0, 1}, 3)

LokSound3 ==
  Byte(<<64>>, 60) \o Byte(<<65>>, 7) \o Byte(<<66, 95>>, 128) \o Num(<<96, 98>>, 0, 9, None)
  \o Num(<<97>>, 0, 99, None) \o Byte(<<99, 113>>, None) \o Num(<<101>>, 0, 128, 64)
  \o Byte(<<102>>, 12) \o Byte(<<103, 105, 106, 111>>, 0) \o Byte(<<104>>, 255)
  \o Byte(<<112>>, 32) \o Num(<<116>>, 50, 200, 50) \o Num(<<117>>, 50, 200, 150)
  \o Num(<<118>>, 10, 20, 15) \o Byte(<<119>>, 100) \o Byte(<<123>>, 15)
  \o Byte(<<67>>, 1) \o Byte(Run(68, 26), None) \o Byte(<<94>>, 255)

LokSound4 ==
  Byte(<<125, 127>>, 90) \o Byte(<<126, 128>>, 130) \o Byte(<<129>>, 15) \o Byte(<<130>>, 5)
  \o Byte(<<132>>, 80) \o Byte(<<133, 138, 139>>, 128) \o Num(<<134>>, 4, 32, 10)
  \o Byte(<<140, 149>>, 255) \o Byte(<<141>>, 10) \o Byte(<<142>>, 125) \o Byte(<<143>>, 100)
  \o Byte(<<144>>, 150) \o Bits(124, 0..6, 21) \o Varied(150, <<42, 85, 127, 170, 212>>, 255)
  \o Byte(Run(155, 16), 0)

LokSound5 ==
  Byte(<<246, 247, 248, 249, 250, 253, 254, 255>>, 0) \o Varied(179, <<80, 40, 40>>, 255)
  \o Varied(182, <<0, 126, 126>>, 126)

-----------------------------------------------------------------------------
\* RailBOX RB23xx.

\* An effect and four flags.
RbEffects ==
  {v \in {base + 16 * flags : base \in 0..7 \cup {9}, flags \in 0..15} : v <= 135}

Rb1 ==
  Num(<<1>>, 1, 127, 3) \o Num(<<2>>, 0, 127, 4) \o Byte(<<3>>, 34) \o Byte(<<4>>, 25)
  \o Byte(<<5>>, 255) \o Num(<<6>>, 10, 200, 127) \o ReadOnly(<<7>>, 172) \o Byte(<<8>>, 172)
  \o Num(<<17>>, 192, 231, 192) \o Byte(<<18>>, 3) \o Num(<<19>>, 0, 127, 0)
  \o Byte(<<50>>, 40) \o Byte(<<51>>, 130) \o Byte(<<52, 53>>, 0) \o Bits(28, {0, 1, 3}, None)
  \o Bits(29, 0..4, None)

Rb2 ==
  Num(<<54>>, 0, 40, 7) \o Num(<<55>>, 0, 40, 12) \o Num(<<58>>, 40, 160, 80)
  \o Num(<<59>>, 6, 20, 6) \o Num(<<60>>, 30, 90, 90) \o Byte(<<61, 62, 63>>, 10)
  \o ReadOnly(<<110>>, 23) \o ReadOnly(<<111>>, 0) \o Byte(<<133, 134>>, 100)
  \o Byte(<<135>>, 20) \o Byte(<<136>>, 50) \o Byte(<<137>>, 1) \o Bits(64, {0, 1, 3}, None)
  \o Effects(Run(112, 7), 135, RbEffects, 0) \o Byte(Run(119, 7), 255) \o Byte(Run(126, 7), 0)

Rb3 ==
  Byte(<<138>>, 1) \o Num(<<165>>, 0, 28, 6) \o Num(<<167>>, 0, 2, 0) \o Num(<<192>>, 0, 68, 1)
  \o Num(<<193>>, 0, 200, 100) \o Byte(<<194>>, 255) \o Byte(<<195, 196>>, 10)
  \o Num(<<200>>, 0, 100, 28) \o Num(<<201>>, 20, 80, 40) \o Byte(<<203>>, 64)
  \o Num(<<204>>, 0, 100, 35) \o Num(<<205>>, 0, 100, 95) \o Num(<<206>>, 0, 100, 22)
  \o Num(<<207>>, 0, 100, 23) \o Byte(Run(139, 13), None) \o Byte(Run(152, 13), None)
  \o Options(202, {1, 2, 3}, 1) \o Bits(208, 0..4, None)

Rb4 ==
  Num(<<210>>, 1, 255, 100) \o Options(209, {0, 1}, 0) \o Effects(Run(212, 4), 135, RbEffects, 0)
  \o Byte(Run(219, 4), 255) \o Byte(Run(226, 4), 0)

-----------------------------------------------------------------------------
\* Whole NMRA decoder, and LokSound 4.

nmraBasic ==
  Num(<<1>>, 1, 127, None) \o Byte(<<2, 3, 4, 5, 6>>, None) \o Num(<<17>>, 192, 231, None)
  \o Byte(<<18>>, None) \o Bits(29, {0, 1, 2, 5}, None)

nmra == nmraBasic \o ReadOnly(<<7, 8>>, None)

loksoundV4 ==
  nmraBasic \o Num(<<63>>, 0, 64, 64) \o Byte(<<49>>, None) \o Byte(<<246, 247, 248>>, 0)

-----------------------------------------------------------------------------
Decoders == {"zimo-ms450", "loksound-v4", "loksound-v5", "rb23xx", "nmra"}

\* The items of a profile.
Cvs(d) ==
  CASE d = "zimo-ms450" ->
         Zimo1 \o Zimo2 \o Zimo3 \o Zimo4 \o Zimo5 \o Zimo6 \o Zimo7 \o Zimo8 \o Zimo9
         \o Zimo10 \o Zimo11 \o Zimo12 \o Zimo13
    [] d = "loksound-v4" -> loksoundV4
    [] d = "loksound-v5" -> LokSound1 \o LokSound2 \o LokSound3 \o LokSound4 \o LokSound5
    [] d = "rb23xx" -> Rb1 \o Rb2 \o Rb3 \o Rb4
    [] OTHER -> nmra

\* What the profile's wizards offer besides the list.
Features(d) ==
  {"cv", "speed", "address"}
    \cup (IF d = "nmra" THEN {} ELSE {"volume"})
    \cup (IF d \in {"nmra", "rb23xx"} THEN {} ELSE {"mapping", "coupler"})
    \cup (IF d = "rb23xx" THEN {"firmware"} ELSE {})

\* getDecoder(): older ids resolve to one entry, unknown ones to none.
Canonical(id) == IF id \in {"rb2300", "rb2302"} THEN "rb23xx" ELSE id

\* matchManufacturer(): what CV 8 says of the profile; ESU's is a guess.
Manufacturer(cv8) ==
  CASE cv8 = 145 -> "zimo-ms450"
    [] cv8 = 151 -> "loksound-v5"
    [] cv8 = 172 -> "rb23xx"
    [] OTHER -> None

\* The CV 29 bit that selects the long address.
LongAddressBit(d) == IF d = "rb23xx" THEN 3 ELSE 5

\* cvWritePriorityOf(): the tiers of the profile, and one for the rest.
Tier(d, cv) ==
  IF d # "loksound-v5" THEN 3 ELSE IF cv = 29 THEN 1 ELSE IF cv \in {2, 5, 6} THEN 2 ELSE 3

\* sortCvDiffsForWrite(): by tier, then by number.
WriteOrder(d, cvs) ==
  SetToSortSeq(cvs, LAMBDA a, b :
    Tier(d, a) < Tier(d, b) \/ (Tier(d, a) = Tier(d, b) /\ a < b))

=============================================================================
