------------------------------- MODULE Selection -------------------------------
(***************************************************************************)
(* Which data items of a device are published, and under which names       *)
(* (src/mtconnect/selection.rs): the explicit signals[] merged with the    *)
(* set derived from the probe by an include/exclude selection.             *)
(*                                                                         *)
(* A signal is [id, item, channel, binding, publish]; the last three are   *)
(* options, <<>> for an absent field and <<x>> for x.  An id is a token,   *)
(* the sequence of its kebab parts: <<"a", "2">> is `a-2`.  The `name`     *)
(* field is left out: it is filled by the same rule as `channel`.          *)
(***************************************************************************)
EXTENDS ProbeModel, FiniteSets

CONSTANTS
  Sanitize,    \* [data item ids and path segments -> tokens]: sanitize_token
  Width        \* [parts of tokens -> Nat]: their bytes

Some(x) == <<x>>
None    == <<>>
OrElse(opt, x) == IF opt = None THEN Some(x) ELSE opt

(***************************************************************************)
(* match_segments: `**` spans zero or more whole segments, "*" stands for  *)
(* any pattern that matches within a segment.                              *)
(***************************************************************************)
MatchSegments(pat, segs) ==
  LET from[p \in 1..(Len(pat) + 1), s \in 1..(Len(segs) + 1)] ==
        IF p > Len(pat) THEN s > Len(segs)
        ELSE IF pat[p] = "**"
             THEN from[p + 1, s] \/ (s <= Len(segs) /\ from[p, s + 1])
             ELSE /\ s <= Len(segs)
                  /\ pat[p] \in {"*", segs[s]}
                  /\ from[p + 1, s + 1]
  IN  from[1, 1]

(***************************************************************************)
(* CompiledMatcher::matches: AND over the fields present.  `ids` is the    *)
(* set of data items that satisfy the anchored regexes on id, type and     *)
(* subType (fixed attributes of an item).                                  *)
(***************************************************************************)
Matches(m, meta) ==
  /\ m.cat = None \/ m.cat = Some(meta.cat)
  /\ m.ids = None \/ DataItemId(meta) \in m.ids[1]
  /\ m.path = None \/ MatchSegments(m.path[1], meta.path)

Selected(sel, meta) ==
  /\ sel.mode = "all" \/ \E i \in 1..Len(sel.include) : Matches(sel.include[i], meta)
  /\ ~ \E i \in 1..Len(sel.exclude) : Matches(sel.exclude[i], meta)

(* validate_selection: inert combinations are refused. *)
ValidSelection(sel) ==
  /\ sel.max >= 1
  /\ sel.mode = "explicit" => sel.include = <<>> /\ sel.exclude = <<>>
  /\ sel.mode = "include" => sel.include # <<>>
  /\ sel.mode = "all" => sel.include = <<>>

(***************************************************************************)
(* derive_channel: the last k path segments and the id, k the largest      *)
(* that fits the instance's topic budget [tokens, bytes].                  *)
(***************************************************************************)
TokenBytes(token) == FoldLeft(LAMBDA acc, part : acc + Width[part] + 1, 0, token)

LastSegments(path, k) ==
  [j \in 1..k |-> Sanitize[path[Len(path) - k + j]]]

ChannelBytes(path, id, k) ==
  FoldLeft(LAMBDA acc, t : acc + TokenBytes(t), 0, LastSegments(path, k))
    + TokenBytes(id) - 1

(* A longer channel has more bytes, so the loop stops at the largest that fits. *)
Shrink(path, id, k, bytes) ==
  Max({0} \union {j \in 1..k : ChannelBytes(path, id, j) <= bytes})

DeriveChannel(path, id, budget) ==
  LET room == IF budget.tokens > 0 THEN budget.tokens - 1 ELSE 0
      kept == Shrink(path, id, Min({Len(path), room}), budget.bytes)
  IN  [channel |-> <<LastSegments(path, kept), id>>,
       dropped |-> Len(path) - kept,
       fits    |-> budget.tokens >= 1 /\ TokenBytes(id) - 1 <= budget.bytes]

(* derived_id: the bare token, else the first free suffix. *)
Spelling(token, n) == IF n = 1 THEN token ELSE Append(token, ToString(n))

(* Mutant: a colliding token is suffixed once, and the spelling not checked again. *)
DerivedIdOnce(item, used) ==
  IF Sanitize[item] \in used THEN Spelling(Sanitize[item], 2) ELSE Sanitize[item]

DerivedId(item, used) ==
  LET free(k) == Spelling(Sanitize[item], k) \notin used
      n       == CHOOSE k \in 1..(Cardinality(used) + 1) :
                   free(k) /\ \A j \in 1..(k - 1) : ~free(j)
  IN  Spelling(Sanitize[item], n)

(* conditions_by_component: what auto-binding binds, in tree order. *)
ConditionsBeside(tree, meta) ==
  LET here == SelectSeq(ItemsInTreeOrder(tree),
                        LAMBDA m : m.cat = "CONDITION" /\ m.path = meta.path)
  IN  [k \in 1..Len(here) |-> DataItemId(here[k])]

AutoBinding(sel, tree, meta) ==
  IF ~sel.autoBind \/ meta.cat = "CONDITION" THEN <<>> ELSE ConditionsBeside(tree, meta)

DefaultPublish(sel, meta) == IF meta.cat = "SAMPLE" THEN sel.publish ELSE "on-change"

(***************************************************************************)
(* One turn of served_set's loop over the items in tree order.  An item an *)
(* explicit entry binds fills what that entry left unset; any other        *)
(* selected item becomes a derived signal while the cap allows.            *)
(***************************************************************************)
FillExplicit(signals, meta, sel, tree) ==
  [i \in 1..Len(signals) |->
     LET s == signals[i].signal
     IN  IF signals[i].provenance = "configured" /\ s.item = DataItemId(meta)
         THEN [signals[i] EXCEPT !.signal =
                [s EXCEPT !.channel = OrElse(@, DeriveChannel(meta.path, s.id, sel.budget).channel),
                          !.binding = OrElse(@, AutoBinding(sel, tree, meta)),
                          !.publish = OrElse(@, DefaultPublish(sel, meta))]]
         ELSE signals[i]]

Derived(meta, id, sel, tree) ==
  [signal |-> [id |-> id, item |-> DataItemId(meta),
               channel |-> Some(DeriveChannel(meta.path, id, sel.budget).channel),
               binding |-> Some(AutoBinding(sel, tree, meta)),
               publish |-> Some(DefaultPublish(sel, meta))],
   provenance |-> "discovered"]

UsedIds(signals) == {signals[i].signal.id : i \in 1..Len(signals)}
DerivedOf(signals) == SelectSeq(signals, LAMBDA s : s.provenance = "discovered")

(* How many channels derived for `meta` do not fit even as the bare id. *)
UnfitFills(meta, signals, sel) ==
  Cardinality({i \in 1..Len(signals) :
                 /\ signals[i].provenance = "configured"
                 /\ signals[i].signal.item = DataItemId(meta)
                 /\ signals[i].signal.channel = None
                 /\ ~DeriveChannel(meta.path, signals[i].signal.id, sel.budget).fits})

UnfitDerived(meta, id, sel) == IF DeriveChannel(meta.path, id, sel.budget).fits THEN 0 ELSE 1

TakeOver(acc, meta, sel, tree) ==
  [acc EXCEPT !.signals = FillExplicit(@, meta, sel, tree),
              !.unfit   = @ + UnfitFills(meta, acc.signals, sel)]

Admit(acc, meta, sel, tree) ==
  LET id == DerivedId(DataItemId(meta), UsedIds(acc.signals))
  IN  [acc EXCEPT !.matched = @ + 1,
                  !.signals = Append(@, Derived(meta, id, sel, tree)),
                  !.unfit   = @ + UnfitDerived(meta, id, sel)]

MergeItem(acc, meta, explicit, sel, tree) ==
  IF ~Selected(sel, meta) THEN acc
  ELSE IF \E i \in 1..Len(explicit) : explicit[i].item = DataItemId(meta)
       THEN TakeOver(acc, meta, sel, tree)
       ELSE IF Len(DerivedOf(acc.signals)) >= sel.max
            THEN [acc EXCEPT !.matched = @ + 1, !.truncated = @ + 1]
            ELSE Admit(acc, meta, sel, tree)

(***************************************************************************)
(* served_set(explicit, selection, model).  `tree` is <<>> before the      *)
(* first probe.                                                            *)
(***************************************************************************)
ServedSet(explicit, selection, tree) ==
  LET start == [signals   |-> [i \in 1..Len(explicit) |->
                                 [signal |-> explicit[i], provenance |-> "configured"]],
                matched   |-> 0,
                truncated |-> 0,
                unfit     |-> 0]
      items == ItemsInTreeOrder(tree)
      merge(acc, meta) == MergeItem(acc, meta, explicit, selection[1], tree)
  IN  IF selection = None \/ tree = <<>> THEN start
      ELSE IF selection[1].mode = "explicit" THEN start
      ELSE FoldLeft(merge, start, items)

(* ServedSet::derived_ids. *)
DerivedIds(set) == UsedIds(DerivedOf(set.signals))
=============================================================================
