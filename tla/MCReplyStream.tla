---------------------------- MODULE MCReplyStream ----------------------------
(* Two iterations of two tool calls; a passage found twice, at two distances. *)
EXTENDS ReplyStream

Near == [key |-> "passage", distance |-> 1]
Far == [key |-> "passage", distance |-> 2]
Found == {{Near}, {Far}}
=============================================================================
