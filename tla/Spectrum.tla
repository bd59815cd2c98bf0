------------------------------ MODULE Spectrum ------------------------------
(***************************************************************************)
(* The meters: visualizer/spectrum.c and visualizer/vumeter.c. A setup says  *)
(* how many bars each of two channels has and how many subbands go into one; *)
(* the samples come from the ring buffer that the player writes. Sums of     *)
(* energy are integers here and the Fourier transform is left out.           *)
(***************************************************************************)
EXTENDS Integers, Sequences, FiniteSetsExt

CONSTANTS
    ScaleExponent,  \* X_SCALE_LOG as a power of two, so that decades are exact
    MinSubbands, MaxSubbands, MinInput,
    PowerMap,       \* the least power of every level above 0
    Hangs, Crash,   \* the outcomes of an endless loop and of a wild access
    Garbage         \* read before it was written

Scale == 2 ^ ScaleExponent
Channels == {1, 2}
Log2(n) == CHOOSE k \in 0 .. 30 : 2 ^ k <= n /\ n < 2 ^ (k + 1)

-----------------------------------------------------------------------------
(* The setup: p tells mono, and width, bar, clip and flipped of both channels *)

Fit(p, channel) == p.width[channel] \div p.bar[channel]

\* The bars of the second channel are cut out of the subbands of the first.
SecondChannel(p, bands) ==
    LET halvings == CHOOSE h \in 0 .. 31 : bands \div 2 ^ h <= Fit(p, 2) /\ \A g \in 0 .. h - 1 : bands \div 2 ^ g > Fit(p, 2)
    IN  CASE Fit(p, 2) > bands -> [bars |-> bands, perBar |-> 1]
          [] Fit(p, 2) <= bands /\ p.clip[2] -> [bars |-> Fit(p, 2), perBar |-> 1]
          [] OTHER -> [bars |-> bands \div 2 ^ halvings, perBar |-> 1 + halvings]

\* The power of two below, the doubled one if higher subbands are clipped
Nominal(p) == 2 ^ Log2(Fit(p, 1)) * (IF p.clip[1] THEN 2 ELSE 1)

FirstChannel(p) ==
    [bars |-> IF p.clip[1] THEN Fit(p, 1) ELSE Nominal(p),
     perBar |-> IF Nominal(p) < MinSubbands THEN MinSubbands \div Nominal(p) ELSE 1]

\* A mono meter leaves the second channel as the last stereo one had it.
SetUp(p, before) ==
    LET bands == Max({Nominal(p), MinSubbands})
        window == bands * 2 * Scale
    IN  IF Fit(p, 1) < 1 THEN Hangs
        ELSE [mono |-> p.mono, flipped |-> p.flipped, bands |-> bands, window |-> window,
              windows |-> IF window < MinInput THEN MinInput \div window ELSE 1,
              channel |-> <<FirstChannel(p), IF p.mono THEN before ELSE SecondChannel(p, bands)>>]

\* Where a subband starts among the bins of the transform: the floor of s ^ e, plus
\* one, for the e that takes the number of subbands to the number of bins
DecadeStart(bands, s) ==
    LET k == Log2(bands)
    IN  IF s = 0 THEN 1
        ELSE 1 + CHOOSE m \in 1 .. bands * Scale :
                    /\ m ^ k <= s ^ (k + ScaleExponent)
                    /\ (m + 1) ^ k > s ^ (k + ScaleExponent)

\* The last bin is left out.
DecadeLength_Short(bands, s) ==
    IF s = bands - 1 THEN bands * Scale - DecadeStart(bands, s)
    ELSE DecadeStart(bands, s + 1) - DecadeStart(bands, s)

DecadeLength(bands, s) ==
    IF s = bands - 1 THEN bands * Scale - DecadeStart(bands, s) + 1
    ELSE DecadeStart(bands, s + 1) - DecadeStart(bands, s)

Decade(bands, s) == DecadeStart(bands, s) .. DecadeStart(bands, s) + DecadeLength(bands, s) - 1

\* What is read of the transform for a subband: both ends of the window
BinsRead(setup, s) == Decade(setup.bands, s) \cup {setup.window - x : x \in Decade(setup.bands, s)}

-----------------------------------------------------------------------------
(* The samples of a window, as places in the buffer, and the two meters *)

WindowStart(idx, len, n) ==
    IF idx - 2 * n >= 0 THEN idx - 2 * n
    ELSE CHOOSE o \in 0 .. len - 1 : \E k \in 1 .. 2 * n : o = idx - 2 * n + k * len

\* The count of samples until the wrap is unsigned: one that skips 0 never wraps.
SamplesRead(idx, len, n) ==
    IF len = 0 /\ idx < 2 * n THEN Hangs
    ELSE LET start == WindowStart(idx, len, n)
         IN  [i \in 1 .. n |-> IF (len - start) % 2 = 0 THEN (start + 2 * (i - 1)) % len ELSE start + 2 * (i - 1)]

\* The mean of the squares of the upper halves of the samples of a channel
VuMeter(playing, samples, n) ==
    LET Square(x) == (x \div 256) * (x \div 256)
    IN  CASE n = 0 -> Crash
          [] n > 0 /\ ~playing -> 0
          [] OTHER -> FoldSet(LAMBDA i, sum : sum + Square(samples[i]), 0, 1 .. n) \div n

\* From 1 to 31 in the code: the highest that the power reaches
Level(power) == Max({0} \cup {i \in DOMAIN PowerMap : power >= PowerMap[i]})

\* Bar number i of a channel, from the powers of the subbands of the two
BarValue(setup, power, c, i) ==
    LET per == setup.channel[c].perBar
        Share(channel) == FoldSet(LAMBDA s, sum : sum + power[channel][s] \div per, 0, (i - 1) * per + 1 .. i * per)
        sum == IF setup.mono THEN (Share(1) + Share(2)) \div 4 ELSE Share(c)
    IN  Level(64 * sum)

BarsFilled(setup, c) == IF setup.mono /\ c = 2 THEN 0 ELSE setup.bands \div setup.channel[c].perBar

Bars(playing, setup, power, c) ==
    LET bars == setup.channel[c].bars
        Place(i) == IF setup.flipped[c] THEN bars + 1 - i ELSE i
    IN  [i \in 1 .. bars |->
            CASE ~playing -> 0
              [] playing /\ Place(i) <= BarsFilled(setup, c) -> BarValue(setup, power, c, Place(i))
              [] OTHER -> Garbage]

-----------------------------------------------------------------------------
(* What the meters promise *)

\* The bars fit the width that they were given, there are subbands for all of them, and
\* the arrays have room for as many subbands as they were made for.
BarsFit(p, setup) ==
    /\ Fit(p, 1) < MaxSubbands => setup.bands <= MaxSubbands
    /\ \A c \in IF p.mono THEN {1} ELSE Channels :
          /\ setup.channel[c].bars * p.bar[c] <= p.width[c]
          /\ setup.channel[c].bars <= BarsFilled(setup, c)

\* Every bin of the transform counts for exactly one subband, none is empty, and both
\* ends are in the window.
DecadesTile(setup) ==
    /\ \A x \in 1 .. setup.bands * Scale : \E s \in 0 .. setup.bands - 1 : x \in Decade(setup.bands, s)
    /\ \A s \in 0 .. setup.bands - 1 :
          /\ Decade(setup.bands, s) # {} /\ BinsRead(setup, s) \subseteq 1 .. setup.window - 1
          /\ \A t \in 0 .. s - 1 : Decade(setup.bands, s) \cap Decade(setup.bands, t) = {}

\* A meter that has the bars it asked for shows each of them, in the mirror if flipped.
BarsShown(setup, power, playing) ==
    \A c \in IF setup.mono THEN {1} ELSE Channels :
        LET shown == Bars(playing, setup, power, c)
            mirror == Bars(playing, [setup EXCEPT !.flipped[c] = ~@], power, c)
        IN  \A i \in DOMAIN shown :
                shown[i] \in 0 .. Len(PowerMap) /\ shown[i] = mirror[Len(shown) + 1 - i]

\* The samples are the last ones before the place the player writes next, oldest first;
\* a window no longer than the buffer has each of them once.
SamplesAreLast(idx, len, n) ==
    LET at == SamplesRead(idx, len, n)
    IN  \A i \in 1 .. n :
            /\ at[i] = (idx - 2 * (n + 1 - i)) % len
            /\ \A j \in 1 .. i - 1 : at[i] = at[j] => 2 * n > len
=============================================================================
