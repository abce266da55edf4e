----------------------------- MODULE MCWorldData ------------------------------
(***************************************************************************)
(* World files of five families: every map of up to three zones (a zone    *)
(* may be missing, an exit may lead nowhere) and every map of four whose   *)
(* zones have exits to others; every web of Requires among three quests;   *)
(* every list of up to three steps over one key item, with a second quest  *)
(* that grants, takes or pays it; and an item placed in any of two zones.  *)
(***************************************************************************)
EXTENDS WorldData

CONSTANTS taverne, chapel, well, cave, nowhere, lamp, loaf, q1, q2, q3, nothing

Plain(zs) ==
    [zones |-> zs, exits |-> [z \in zs |-> zs \ {z}], items |-> [z \in zs |-> {}],
     quests |-> {}, requires |-> <<>>, steps |-> <<>>, reward |-> <<>>,
     fieldsOK |-> TRUE]

Home == Plain({taverne, chapel})

Maps ==
    UNION {{[Plain(zs) EXCEPT !.exits = exits] :
              exits \in [zs -> SUBSET {taverne, chapel, well, nowhere}]} :
           zs \in {{taverne, chapel, well}, {taverne, chapel}, {taverne, well},
                   {chapel, well}}}

Webs ==
    LET zs == {taverne, chapel, well, cave} IN
      {[Plain(zs) EXCEPT !.exits = exits] :
         exits \in {f \in [zs -> (SUBSET zs) \ {{}}] : \A z \in zs : z \notin f[z]}}

Placements ==
    {[Home EXCEPT !.items = items, !.fieldsOK = ok] :
       items \in [Home.zones -> SUBSET {lamp}], ok \in BOOLEAN}

WithQuests(requires, actions, reward) ==
    [Home EXCEPT !.quests = DOMAIN requires, !.requires = requires,
                 !.steps = actions, !.reward = reward]

Chains ==
    LET Q == {q1, q2, q3} IN
      {WithQuests(requires, [q \in Q |-> <<>>], [q \in Q |-> None]) :
         requires \in [Q -> Q \cup {None, nothing}]}

StepKinds ==
    {[grants |-> {loaf}, receives |-> {}], [grants |-> {}, receives |-> {loaf}],
     [grants |-> {loaf}, receives |-> {loaf}]}

Lists ==
    LET Q == {q1, q2} IN
      {WithQuests([q \in Q |-> None],
                  [q \in Q |-> IF q = q1 THEN s ELSE t],
                  [q \in Q |-> IF q = q2 THEN pay ELSE None]) :
         s \in UNION {[1..n -> StepKinds] : n \in 0..3},
         t \in UNION {[1..n -> StepKinds] : n \in 0..1}, pay \in {None, loaf}}

MCWorlds == Maps \cup Webs \cup Placements \cup Chains \cup Lists
==============================================================================
