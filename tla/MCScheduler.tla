---------------------------- MODULE MCScheduler ----------------------------
(* Transcoding graphs to check Scheduler on.                               *)
EXTENDS Scheduler

CONSTANTS d1, d2, c1, c2, f1, f2, e1, m1

(* Two inputs copied beside a filtergraph that generates its frames:       *)
(* -i A -i B -filter_complex color -c copy.                                *)
CopyOuts == d1 :> <<<< <<m1, 0>> >>>> @@ d2 :> <<<< <<m1, 1>> >>>>
            @@ f1 :> <<<< <<e1, 0>> >>>> @@ e1 :> <<<< <<m1, 2>> >>>>
CopyNbIn == f1 :> 0 @@ e1 :> 1 @@ m1 :> 3
CopyPkts == d1 :> <<1>> @@ d2 :> <<3>> @@ f1 :> <<2>>

(* One input transcoded, through filtergraph f1, and copied as well, and   *)
(* another one copied.                                                     *)
MixedOuts == d1 :> <<<< <<c1, 0>>, <<m1, 1>> >>>> @@ d2 :> <<<< <<m1, 2>> >>>>
             @@ c1 :> <<<< <<f1, 0>> >>>> @@ f1 :> <<<< <<e1, 0>> >>>>
             @@ e1 :> <<<< <<m1, 0>> >>>>
MixedNbIn == c1 :> 1 @@ f1 :> 1 @@ e1 :> 1 @@ m1 :> 3
MixedPkts == d1 :> <<1>> @@ d2 :> <<2>>

(* Two inputs overlaid by f1.                                              *)
OverlayOuts == d1 :> <<<< <<c1, 0>> >>>> @@ d2 :> <<<< <<c2, 0>> >>>>
               @@ c1 :> <<<< <<f1, 0>> >>>> @@ c2 :> <<<< <<f1, 1>> >>>>
               @@ f1 :> <<<< <<e1, 0>> >>>> @@ e1 :> <<<< <<m1, 0>> >>>>
OverlayNbIn == c1 :> 1 @@ c2 :> 1 @@ f1 :> 2 @@ e1 :> 1 @@ m1 :> 1
OverlayPkts == d1 :> <<1>> @@ d2 :> <<1>>

(* One input decoded and encoded without a filtergraph (subtitles), and    *)
(* another copied.                                                         *)
SubsOuts == d1 :> <<<< <<c1, 0>> >>>> @@ c1 :> <<<< <<e1, 0>> >>>>
            @@ e1 :> <<<< <<m1, 0>> >>>> @@ d2 :> <<<< <<m1, 1>> >>>>
SubsNbIn == c1 :> 1 @@ e1 :> 1 @@ m1 :> 2
SubsPkts == d1 :> <<2>> @@ d2 :> <<1>>

(* One stream copied and transcoded, without a filtergraph.                *)
FailOuts == d1 :> <<<< <<m1, 1>>, <<c1, 0>> >>>> @@ c1 :> <<<< <<e1, 0>> >>>>
            @@ e1 :> <<<< <<m1, 0>> >>>>
FailNbIn == c1 :> 1 @@ e1 :> 1 @@ m1 :> 2
TwoPkts == d1 :> <<2>>

(* What filtergraph f2 generates is overlaid on an input by f1.            *)
ChainOuts == d1 :> <<<< <<c1, 0>> >>>> @@ c1 :> <<<< <<f1, 0>> >>>>
             @@ f2 :> <<<< <<f1, 1>> >>>>
             @@ f1 :> <<<< <<e1, 0>> >>>> @@ e1 :> <<<< <<m1, 0>> >>>>
ChainNbIn == c1 :> 1 @@ f1 :> 2 @@ f2 :> 0 @@ e1 :> 1 @@ m1 :> 1
ChainPkts == d1 :> <<2>> @@ f2 :> <<1>>

(* -filter_complex without and with a trim of the first input.             *)
AllFrames == f1 :> (0 :> 9 @@ 1 :> 9)
FirstFrame == f1 :> (0 :> 1 @@ 1 :> 9)

TwoDemuxers == <<d1, d2>>
OneDemuxer == <<d1>>
NoFilter == <<>>
OneFilter == <<f1>>
TwoFilters == <<f1, f2>>
=============================================================================
