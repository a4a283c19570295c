-------------------------- MODULE MCReplayHistory --------------------------
(* Two batches: three venue fills, then an internal and a venue fill.      *)
EXTENDS ReplayHistory

VenueFill(o, v) == [order |-> o, venue |-> v, curve |-> "c"]
Internal(o)     == [order |-> o, venue |-> "", curve |-> ""]

MCOutputs   == << <<VenueFill(1, "v"), VenueFill(2, "v"), VenueFill(3, "v")>>,
                  <<Internal(4), VenueFill(5, "v")>> >>
MCSnapVenue == << {"v"}, {} >>
=============================================================================
