----------------------------- MODULE MCVerifier -----------------------------
(***************************************************************************)
(* An instance of the file transfer and of the verifier for TLC.           *)
(***************************************************************************)
EXTENDS Verifier

Archives(source, result) == [NoDelivery EXCEPT !.source = source, !.result = result]

\* A delivery in which nothing is special but one thing, and a few combinations: all the
\* kinds of each archive; files of an earlier order in the way of this one, visibly or in
\* directories; and files of an earlier order that are taken for those of this one.
MCDeliveries ==
  {Archives(source, "right") : source \in SourceKind}
    \union {Archives("project", result) : result \in ResultKind}
    \union {[NoDelivery EXCEPT !.old = {Archive("result")}],
            [NoDelivery EXCEPT !.old = {Scene}],
            [NoDelivery EXCEPT !.nested = {Image(1)}, !.old = {Image(1)}],
            [Archives("project", "wrong") EXCEPT
               !.beyond = {Image(FrameCount)}, !.old = {Image(FrameCount)}],
            [NoDelivery EXCEPT !.beyond = {Image(FrameCount)}],
            [NoDelivery EXCEPT !.nested = {Scene}, !.beyond = {Scene}, !.old = {Scene}],
            [Archives("project", "wrong") EXCEPT !.nested = {Image(FrameCount)},
               !.beyond = {Image(FrameCount)}, !.old = {Image(FrameCount)}]}
=============================================================================
