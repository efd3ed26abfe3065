---------------------------- MODULE MCCheckpoint ----------------------------
(* Streams of two or three spans.  Configurations "a" and "b" have the same *)
(* row profile but different rows; build 2 changes the last span of "a".    *)
EXTENDS Checkpoint

\* Two configurations, two builds.
TwoStreams ==
  [c \in {"a", "b"} |->
     IF c = "a"
     THEN << << <<"a1", "a2">>, <<"a3">> >>, << <<"a1", "a2">>, <<"a4">> >> >>
     ELSE << << <<"b1", "b2">>, <<"b3">> >>, << <<"b1", "b2">>, <<"b3">> >> >>]
=============================================================================
