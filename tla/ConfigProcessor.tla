---------------------------- MODULE ConfigProcessor ----------------------------
(***************************************************************************)
(* Cfg::Processor::DumpFile (src/src/module/cfg_processor.cpp): how the    *)
(* configuration the program is built with, the aimrt node of the external *)
(* file, the defaults and the patches become one configuration.            *)
(*                                                                         *)
(* The module follows one list of named items through all stages.  All     *)
(* lists take the same way and differ in the steps of InjectDefaultCfg()   *)
(* that concern them: channel.backends gets backends, pub_topics_options   *)
(* topics, executors executors.  The value of a field of an item is the    *)
(* rank of the last source that has set it or added to it, all that the    *)
(* properties ask about it.  A tag is the set of its words, "new" and      *)
(* "new.front" being one.  An item a patch names is chosen when it is its  *)
(* turn: what a file is, is the items it brings.                           *)
(***************************************************************************)
EXTENDS Naturals, Sequences, FiniteSets, SequencesExt

CONSTANTS Names,      \* the names of items, the values of the key "type"
          Fields,     \* the other fields of an item
          Known,      \* the names the program has a type for
          Defaults,   \* what InjectDefaultCfg() does to the list, step by step
          Tags,       \* the tags patches use
          MaxItems    \* bound: items of all patches together

\* How a default gets into the list: Assign's |= adds an item that is absent; its
\* = and Append's += add one at the back, always; insert() adds one at the front,
\* always; Visit() changes the first item of the name, if there is one.
Ways == {"absent", "back", "front", "visit"}

ASSUME ConfigAssumption == /\ Defaults \in Seq([how : Ways, name : Names, fields : SUBSET Fields])
                           /\ MaxItems \in Nat
                           /\ IsFiniteSet(Names)

VARIABLES res,      \* the list
          ext,      \* the list of the external file
          stage,    \* the stage of DumpFile()
          pos,      \* the position of the loop of that stage
          items,    \* patch items so far
          refused   \* a panic: there will be no configuration

vars == <<res, ext, stage, pos, items, refused>>

-----------------------------------------------------------------------------
(* Lists of items.                                                         *)

Unset == 0

\* Who has set a field: the program, the external file, the defaults, the
\* patches of the system that come before those of the external file and of
\* the user, and those that come after.
Rank == [program |-> 1, merge |-> 2, defaults |-> 3, before |-> 4,
         external |-> 5, user |-> 6, after |-> 7]

Patching == {"before", "external", "user", "after"}

Values == Unset..7
Items  == [name : Names, fields : [Fields -> Values]]

\* An item that sets the fields of F.
Item(n, F, rank) ==
  [name |-> n, fields |-> [f \in Fields |-> IF f \in F THEN rank ELSE Unset]]

ItemsOf(rank) == {Item(n, F, rank) : n \in Names, F \in SUBSET Fields}

NamesOf(list) == {list[i].name : i \in DOMAIN list}

\* The position of the first item of that name, or 0.
Find(list, n) == SelectInSeq(list, LAMBDA item : item.name = n)

DistinctNames(list) ==
  \A i, j \in DOMAIN list : list[i].name = list[j].name => i = j

\* The lists a source may bring: none names an item twice.
Lists(rank) ==
  {list \in BoundedSeq(ItemsOf(rank), Cardinality(Names)) : DistinctNames(list)}

\* MergeMapNode(): field by field; what is undefined changes nothing.
MergeMapNode(item, other) ==
  [item EXCEPT !.fields =
     [f \in Fields |-> IF other.fields[f] = Unset THEN @[f] ELSE other.fields[f]]]

\* PushFront(): append, and let every other item move behind it.
PushFront(list, item) ==
  LET whole == Append(list, item)
      turns == Len(whole) - 1
  IN  SubSeq(whole, turns + 1, Len(whole)) \o SubSeq(whole, 1, turns)

-----------------------------------------------------------------------------
(* Patch modes.                                                            *)

NewModes      == {"new.front", "new.back", "new.never"}
OverrideModes == {"override", "override.front", "override.back"}

\* AnalyzePatchMode(): no tag is an override that is not explicit.
Modes(tag) == CASE tag = {}            -> {"override"}
                [] tag = {"new.never"} -> {"new.never", "override", "explicit"}
                [] OTHER               -> tag \cup {"explicit"}

\* The combinations AnalyzePatchMode() refuses.
BadTag(tag) ==
  \E family \in {NewModes, OverrideModes, {"delete", "override", "skip"}} :
    Cardinality(Modes(tag) \cap family) > 1

-----------------------------------------------------------------------------
(* MergeListNode(): the external file decides which items there are.       *)

Init == /\ res \in Lists(Rank.program)
        /\ ext \in Lists(Rank.merge)
        /\ stage \in {"merge", "reflect"}   \* "reflect": no external list
        /\ stage = "reflect" => ext = <<>>
        /\ pos = 1
        /\ items = 0
        /\ refused = FALSE

MergeItem ==
  /\ stage = "merge"
  /\ pos \in DOMAIN ext
  /\ LET i == Find(res, ext[pos].name)
     IN  res' = IF i = 0 THEN Append(res, ext[pos])
                ELSE ReplaceAt(res, i, MergeMapNode(res[i], ext[pos]))
  /\ pos' = pos + 1
  /\ UNCHANGED <<ext, stage, items, refused>>

MergeEnd ==
  /\ stage = "merge"
  /\ pos \notin DOMAIN ext
  /\ stage' = "prune"
  /\ pos' = 1
  /\ UNCHANGED <<res, ext, items, refused>>

\* Mutant: the index moves on past the item that takes a removed one's place.
PruneItemAndNext ==
  /\ stage = "prune"
  /\ pos \in DOMAIN res
  /\ res' = IF res[pos].name \in NamesOf(ext) THEN res ELSE RemoveAt(res, pos)
  /\ pos' = pos + 1
  /\ UNCHANGED <<ext, stage, items, refused>>

\* An item that is not in the external file is removed.
PruneItem ==
  /\ stage = "prune"
  /\ pos \in DOMAIN res
  /\ IF res[pos].name \in NamesOf(ext)
     THEN pos' = pos + 1 /\ UNCHANGED res
     ELSE res' = RemoveAt(res, pos) /\ UNCHANGED pos
  /\ UNCHANGED <<ext, stage, items, refused>>

PruneEnd ==
  /\ stage = "prune"
  /\ pos \notin DOMAIN res
  /\ stage' = "reflect"
  /\ pos' = 1
  /\ UNCHANGED <<res, ext, items, refused>>

-----------------------------------------------------------------------------
(* InjectDefaultCfgToAimRTNode(): the list is read back, gets its defaults *)
(* and is written again.                                                   *)

\* ReflectBackendsFromYaml(): panic() at an item the program has no type for.
Reflect ==
  /\ stage = "reflect"
  /\ ~refused
  /\ IF NamesOf(res) \subseteq Known
     THEN stage' = "defaults" /\ UNCHANGED refused
     ELSE refused' = TRUE /\ UNCHANGED stage
  /\ UNCHANGED <<res, ext, pos, items>>

DefaultItem == Item(Defaults[pos].name, Defaults[pos].fields, Rank.defaults)

\* The next step of InjectDefaultCfg() is of that way.
NextDefault(how) ==
  /\ stage = "defaults"
  /\ ~refused
  /\ pos \in DOMAIN Defaults
  /\ Defaults[pos].how = how
  /\ pos' = pos + 1
  /\ UNCHANGED <<ext, stage, items, refused>>

\* Mutant of AddIfAbsent: `= {}` instead of `|= {}`.
AddAnyway == /\ NextDefault("absent")
             /\ res' = Append(res, DefaultItem)

AddIfAbsent ==
  /\ NextDefault("absent")
  /\ res' = IF DefaultItem.name \in NamesOf(res) THEN res ELSE Append(res, DefaultItem)

AddAtBack == /\ NextDefault("back")
             /\ res' = Append(res, DefaultItem)

AddAtFront == /\ NextDefault("front")
              /\ res' = PushFront(res, DefaultItem)

VisitFirst ==
  /\ NextDefault("visit")
  /\ LET i == Find(res, DefaultItem.name)
     IN  res' = IF i = 0 THEN res
                ELSE ReplaceAt(res, i, MergeMapNode(res[i], DefaultItem))

\* The configuration of the system does not ask for this default.
DefaultIsOff == \E how \in Ways : NextDefault(how) /\ UNCHANGED res

\* AddDefaultBackends(): panic() at a name that cannot be a default backend.
RefuseDefault ==
  /\ stage = "defaults"
  /\ ~refused
  /\ pos \in DOMAIN Defaults
  /\ Defaults[pos].how = "absent"
  /\ refused' = TRUE
  /\ UNCHANGED <<res, ext, stage, pos, items>>

InjectDefault == \/ AddIfAbsent \/ AddAtBack \/ AddAtFront
                 \/ VisitFirst \/ DefaultIsOff \/ RefuseDefault

DefaultsEnd ==
  /\ stage = "defaults"
  /\ ~refused
  /\ pos \notin DOMAIN Defaults
  /\ stage' = "before"
  /\ UNCHANGED <<res, ext, pos, items, refused>>

-----------------------------------------------------------------------------
(* PatchListNode(), item by item.                                          *)

\* The next item of a patch, with a tag that is accepted.
PatchItem(tag) == /\ stage \in Patching
                  /\ ~refused
                  /\ items < MaxItems
                  /\ ~BadTag(tag)
                  /\ items' = items + 1
                  /\ UNCHANGED <<ext, stage, pos>>

\* No item of that name: the new modes say what to do.
PatchMissing(item, tag) ==
  /\ PatchItem(tag)
  /\ Find(res, item.name) = 0
  /\ Modes(tag) \cap NewModes # {}
  /\ res' = CASE "new.front" \in tag -> PushFront(res, item)
              [] "new.back" \in tag  -> Append(res, item)
              [] OTHER               -> res
  /\ UNCHANGED refused

\* do_override(): an explicit one replaces the item, another one merges.
Overridden(old, item, tag) ==
  IF "explicit" \in Modes(tag) THEN item ELSE MergeMapNode(old, item)

\* Mutant: the last item is erased, and not the one that moves.
PatchOverrideMoves(item, tag) ==
  /\ PatchItem(tag)
  /\ Modes(tag) \cap OverrideModes # {}
  /\ LET i == Find(res, item.name)
     IN  /\ i # 0
         /\ res' = PushFront(RemoveAt(res, Len(res)), res[i])
  /\ UNCHANGED refused

\* An item of that name, and an override mode.
PatchOverride(item, tag) ==
  /\ PatchItem(tag)
  /\ Modes(tag) \cap OverrideModes # {}
  /\ LET i   == Find(res, item.name)
         new == Overridden(res[i], item, tag)
     IN  /\ i # 0
         /\ res' = CASE "override" \in Modes(tag)       -> ReplaceAt(res, i, new)
                     [] "override.front" \in Modes(tag) -> PushFront(RemoveAt(res, i), new)
                     [] OTHER                           -> Append(RemoveAt(res, i), new)
  /\ UNCHANGED refused

\* The other modes come after the override modes, in this order.
PatchSkip(item, tag) ==
  /\ PatchItem(tag)
  /\ Find(res, item.name) # 0
  /\ "skip" \in tag
  /\ tag \cap OverrideModes = {}
  /\ UNCHANGED <<res, refused>>

PatchDelete(item, tag) ==
  /\ PatchItem(tag)
  /\ Find(res, item.name) # 0
  /\ "delete" \in tag
  /\ tag \cap OverrideModes = {}
  /\ res' = RemoveAt(res, Find(res, item.name))
  /\ UNCHANGED refused

\* CompareAndReplaceNode() of two maps is MergeMapNode().
PatchMerge(item, tag) ==
  /\ PatchItem(tag)
  /\ Find(res, item.name) # 0
  /\ "merge" \in tag
  /\ tag \cap (OverrideModes \cup {"skip", "delete"}) = {}
  /\ LET i == Find(res, item.name)
     IN  res' = ReplaceAt(res, i, MergeMapNode(res[i], item))
  /\ UNCHANGED refused

\* panic(): a tag that is not accepted, an item that is missing, or there,
\* with no mode for that case.
PatchRefused(item, tag) ==
  /\ stage \in Patching
  /\ ~refused
  /\ items < MaxItems
  /\ \/ BadTag(tag)
     \/ /\ Find(res, item.name) = 0
        /\ Modes(tag) \cap NewModes = {}
     \/ /\ Find(res, item.name) # 0
        /\ Modes(tag) \cap (OverrideModes \cup {"skip", "delete", "merge"}) = {}
  /\ refused' = TRUE
  /\ UNCHANGED <<res, ext, stage, pos, items>>

\* A list with the tag override replaces the list.
PatchWholeList(list) ==
  /\ PatchItem({})
  /\ res' = list
  /\ UNCHANGED refused

\* Mutant: the patches of the user come before those of the external file.
NextStageUserFirst == [before |-> "user", user |-> "external",
                       external |-> "after", after |-> "done"]

\* The order of the patches in DumpFile().
NextStage == [before |-> "external", external |-> "user",
              user |-> "after", after |-> "done"]

PatchEnd ==
  /\ stage \in Patching
  /\ ~refused
  /\ stage' = NextStage[stage]
  /\ UNCHANGED <<res, ext, pos, items, refused>>

CurrentRank == IF stage \in Patching THEN Rank[stage] ELSE Unset

\* The next thing a patch brings.
Patch ==
  \/ \E item \in ItemsOf(CurrentRank), tag \in Tags :
       \/ PatchMissing(item, tag)
       \/ PatchOverride(item, tag)
       \/ PatchSkip(item, tag)
       \/ PatchDelete(item, tag)
       \/ PatchMerge(item, tag)
       \/ PatchRefused(item, tag)
  \/ \E n \in Names : PatchWholeList(<<Item(n, Fields, CurrentRank)>>)

Next == \/ MergeItem \/ MergeEnd
        \/ PruneItem \/ PruneEnd
        \/ Reflect \/ InjectDefault \/ DefaultsEnd
        \/ Patch \/ PatchEnd

Spec == Init /\ [][Next]_vars

-----------------------------------------------------------------------------
(* Properties                                                              *)

\* Types; the loops end at the end of their lists, though one of them removes
\* from the list it walks over.
TypeOK == /\ res \in Seq(Items)
          /\ ext \in Seq(Items)
          /\ stage \in {"merge", "prune", "reflect", "defaults", "done"} \cup Patching
          /\ pos \in 1..1 + Len(CASE stage = "merge" -> ext
                                [] stage = "prune" -> res
                                [] OTHER           -> Defaults)
          /\ items \in 0..MaxItems
          /\ refused \in BOOLEAN

\* The names of which the defaults may make a second item: their step does not
\* look whether there is one.
Pushed == {Defaults[k].name : k \in {l \in DOMAIN Defaults : Defaults[l].how \in {"back", "front"}}}

Apart(list) ==
  \A i, j \in DOMAIN list :
    list[i].name = list[j].name => i = j \/ list[i].name \in Pushed

\* Merging, the other defaults and patches never make a second item of a name
\* (AimRT would start a backend twice), even where there are two of another.
UniqueNames == Apart(res)

\* MergeListNode() leaves exactly the items of the external file, though it
\* removes from the list it walks over.
ExternalDecides ==
  [][stage = "prune" /\ stage' = "reflect" => NamesOf(res) = NamesOf(ext)]_vars

\* Two lists have the same items of other names than n, in the same order.
SameOthers(list, other, n) ==
  LET Others(l) == {i \in DOMAIN l : l[i].name # n}
  IN  \E f \in Surjection(Others(list), Others(other)) :
        /\ \A i \in Others(list) : list[i] = other[f[i]]
        /\ \A i, j \in Others(list) : i < j => f[i] < f[j]

\* All of the list is from the source of that rank.
OnlyFrom(rank, list) == \A i \in DOMAIN list : list[i] \in ItemsOf(rank)

\* A patch of an item leaves all others as they are, in their order, wherever
\* the item is put; else the list as a whole is from the patch.
PatchIsLocal ==
  [][CurrentRank # Unset => \/ \E n \in Names : SameOthers(res', res, n)
                            \/ OnlyFrom(CurrentRank, res')]_vars

\* Program, external file, defaults, patches before, of the external file, of the
\* user, and after: a field never goes back to a value of an earlier one, unless
\* the defaults may have made a second item that takes the place of the first.
LaterSourceWins ==
  [][\A i \in DOMAIN res, j \in DOMAIN res' : \A f \in Fields :
       /\ res[i].name = res'[j].name
       /\ res[i].name \notin Pushed
       /\ res'[j].fields[f] # Unset
       => res[i].fields[f] <= res'[j].fields[f]]_vars

\* "delete removes the field of that name that exists" (cfg_processor.h): after
\* such a patch the list has no item of the name.
DeletedIsGone ==
  [][\A item \in ItemsOf(CurrentRank), tag \in Tags :
       PatchDelete(item, tag) => item.name \notin NamesOf(res')]_vars
=============================================================================
