-------------------------- MODULE MCConfigProcessor --------------------------
(***************************************************************************)
(* An instance of ConfigProcessor for TLC: the tags of the documentation,  *)
(* combinations of two words whose precedence matters, and refused ones.   *)
(*                                                                         *)
(* MCDefaults are the steps for channel.backends, in short: WithDefaultRos,*)
(* AddMonitorCfg() and SetRos2ChannelQos().  MCAllDefaults has a step of   *)
(* every way: one in front too, as pub_topics_options gets them.           *)
(***************************************************************************)
EXTENDS ConfigProcessor

CONSTANTS ros2, monitor, other, f1

MCDefaults == << [how |-> "absent", name |-> ros2, fields |-> {f1}],
                 [how |-> "back", name |-> monitor, fields |-> {f1}],
                 [how |-> "visit", name |-> ros2, fields |-> {f1}] >>

MCAllDefaults == << [how |-> "front", name |-> monitor, fields |-> {f1}] >> \o MCDefaults

MCTags == { {}, {"override"}, {"override.front"}, {"override.back"}, {"skip"},
            {"delete"}, {"merge"}, {"new.front"}, {"new.back"}, {"new.never"},
            {"new.front", "override"}, {"new.back", "skip"},
            {"new.never", "delete"}, {"new.front", "merge"},
            {"skip", "override.back"}, {"skip", "delete"} }
=============================================================================
