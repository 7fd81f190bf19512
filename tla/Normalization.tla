--------------------------- MODULE Normalization ---------------------------
(***************************************************************************)
(* What an import computes before it writes a row: the provenance check of *)
(* src/solver/import-provenance.ts, the quality gate of                    *)
(* src/solver/quality.ts, the conversion of a solver's envelope in         *)
(* src/solver/provider.ts, and the checks of src/solver/normalized.ts.     *)
(*                                                                         *)
(* A combo is a pair of cards in the order it is spelled, an action is its *)
(* index, a frequency the solver reports is a weight (rational arithmetic  *)
(* stands for floating point), and a seat name is what remains of a string *)
(* once case and surrounding blanks are told apart.                        *)
(***************************************************************************)
EXTENDS Integers, SequencesExt

CONSTANTS
    Total,      \* 10,000 basis points
    MinReach,   \* ACTIVE_COMBO_MIN_REACH
    ManyCombos, \* 20, the selectable range from which a collapse is suspicious
    None        \* undefined

Lanes == {"ip", "oop"}

-----------------------------------------------------------------------------
(* Provenance and quality.                                                 *)

\* The last set_range line of a lane, and the configuration, as bags of tokens.
InputRange(item, lane) ==
    LET i == SelectLastInSeq(item.input, LAMBDA line : line.lane = lane)
    IN  IF i = 0 THEN <<>> ELSE item.input[i].tokens

Provenanced(item) ==
    /\ item.config.hash # None /\ item.hash = item.config.hash
    /\ item.config.story = item.story
    /\ \A lane \in Lanes :
          /\ InputRange(item, lane) # <<>>
          /\ ToBag(InputRange(item, lane)) = ToBag(item.config.ranges[lane])

\* The iteration a line of the log belongs to; 0 before the first one.
Iteration(log, i) ==
    LET last == SelectLastInSubSeq(log, 1, i, LAMBDA line : line.kind = "iter")
    IN  IF last = 0 THEN 0 ELSE log[last].value

Checkpoints(item) ==
    {i \in DOMAIN item.log : item.log[i].kind = "total" /\ Iteration(item.log, i) >= item.config.minimum}

\* Mutant: any checkpoint counts, not the latest.
ConvergedOnce(item) == \E i \in Checkpoints(item) : item.log[i].value <= item.config.target

Converged(item) ==
    Checkpoints(item) # {} /\ item.log[Max(Checkpoints(item))].value <= item.config.target

-----------------------------------------------------------------------------
(* Combos, reach and frequencies.                                          *)

Reversed(combo) == <<combo[2], combo[1]>>
Variants(combo) == <<combo, Reversed(combo)>>

\* The spelling under which a table lists a holding.
Resolve(combo, table) ==
    LET i == SelectInSeq(Variants(combo), LAMBDA variant : variant \in table)
    IN  IF i = 0 THEN None ELSE Variants(combo)[i]

FirstKnown(values) == values[SelectInSeq(values, LAMBDA value : value # None)]

\* rawReach or reachWeight, each from the entry or else from the hero's range.
EffectiveReach(item, combo) ==
    LET spelled == Resolve(combo, DOMAIN item.range)
        listed  == IF spelled = None THEN [raw |-> None, weight |-> None] ELSE item.range[spelled]
        entry   == item.byCombo[combo]
    IN  FirstKnown(<<entry.raw, listed.raw, entry.weight, listed.weight, 0>>)

Active(reach) == reach >= MinReach

Weighted(weights, actions) ==
    actions \subseteq DOMAIN weights /\ SumFunctionOnSet(weights, actions) > 0

\* Mutant: each action is rounded down and the rest falls to the last one.
ApportionToLast(weights, actions) ==
    LET total    == SumFunctionOnSet(weights, actions)
        floors   == [a \in actions |-> (weights[a] * Total) \div total]
    IN  [floors EXCEPT ![Max(actions)] = @ + Total - SumFunction(floors)]

Apportion(weights, actions) ==
    LET total    == SumFunctionOnSet(weights, actions)
        floors   == [a \in actions |-> (weights[a] * Total) \div total]
        fraction == [a \in actions |-> (weights[a] * Total) % total]
        before(a) == {b \in actions : fraction[b] > fraction[a] \/ (fraction[b] = fraction[a] /\ b < a)}
    IN  [a \in actions |->
            IF Cardinality(before(a)) < Total - SumFunction(floors) THEN floors[a] + 1 ELSE floors[a]]

Actions(item) == DOMAIN item.allIn
ActionOrder(item) == IF item.order = None THEN [a \in Actions(item) |-> a] ELSE item.order

Featured(item) == IF item.featured # None THEN item.featured ELSE item.keys[1]
Requested(item) ==
    {Featured(item)} \cup ToSet(IF item.selectable # None THEN item.selectable ELSE item.keys)
Selectable(item) == {Resolve(combo, ToSet(item.keys)) : combo \in Requested(item)}

Playable(item) ==
    /\ item.keys # <<>>
    /\ \A combo \in ToSet(item.keys) : Weighted(item.byCombo[combo].weights, ToSet(ActionOrder(item)))
    /\ None \notin Selectable(item)
    /\ \A combo \in Selectable(item) : Active(EffectiveReach(item, combo))

Strategy(item) ==
    [combo \in Selectable(item) |->
        [reach |-> EffectiveReach(item, combo),
         frequencies |-> Apportion(item.byCombo[combo].weights, ToSet(ActionOrder(item)))]]

-----------------------------------------------------------------------------
(* Seats.  Names of the preflop story, and names the envelope shows.       *)

Name(seat) == [seat |-> seat, lower |-> FALSE, padded |-> FALSE]
Upper(name) == [name EXCEPT !.lower = FALSE]
Trim(name) == [name EXCEPT !.padded = FALSE]
IsButton(name) == Upper(name) = Name("BTN")

\* A story that is not known names nobody.
Told(story, lane) == IF story = None THEN {} ELSE story[lane]
Authored(item, lane) == {Trim(name) : name \in Told(item.story, lane)}
ToldSeats(story, lane) == {Upper(name) : name \in Told(story, lane)}
TheOne(set) == CHOOSE x \in set : TRUE

Position(item, lane) ==
    IF Authored(item, lane) # {} THEN TheOne(Authored(item, lane))
    ELSE FirstKnown(<<item.shown[lane], Name(lane)>>)

Buttons(positions) == {lane \in Lanes : IsButton(positions[lane])}

\* A generic name, IP or OOP, gives way to the story.
Shows(item, lane, name) ==
    \/ item.shown[lane] = None
    \/ Upper(item.shown[lane]) \in {Name(lane), Upper(name)}

SeatsAgree(item) ==
    LET buttons == Buttons([lane \in Lanes |-> Position(item, lane)])
    IN  /\ \A lane \in Lanes :
              /\ Cardinality(Authored(item, lane)) <= 1
              /\ \A name \in Authored(item, lane) : Shows(item, lane, name)
        /\ buttons # Lanes
        /\ \A lane \in buttons : item.dealer \in {None, lane}

Dealer(item) ==
    LET buttons == Buttons([lane \in Lanes |-> Position(item, lane)])
    IN  IF buttons # {} THEN TheOne(buttons) ELSE FirstKnown(<<item.dealer, item.first>>)

-----------------------------------------------------------------------------
(* The normalized envelope and the checks it has to pass.                  *)

Envelope(item) ==
    [allIn |-> item.allIn, order |-> ActionOrder(item), strategy |-> Strategy(item),
     featured |-> Resolve(Featured(item), Selectable(item)),
     story |-> item.story, positions |-> [lane \in Lanes |-> Position(item, lane)],
     dealer |-> Dealer(item), configuration |-> item.hash]

ValidSeats(spot) ==
    \A lane \in Lanes :
        /\ Cardinality(ToldSeats(spot.story, lane)) <= 1
        /\ \A name \in ToldSeats(spot.story, lane) :
              /\ Upper(spot.positions[lane]) = name
              /\ IsButton(name) => spot.dealer = lane

ValidStrategy(spot) ==
    /\ spot.order = [a \in DOMAIN spot.allIn |-> a]
    /\ spot.featured \in DOMAIN spot.strategy
    /\ \A combo \in DOMAIN spot.strategy :
          /\ DOMAIN spot.strategy[combo].frequencies = DOMAIN spot.allIn
          /\ SumFunction(spot.strategy[combo].frequencies) = Total
          /\ Active(spot.strategy[combo].reach)

Distance(f, g) == SumFunction([a \in DOMAIN f |-> IF f[a] > g[a] THEN f[a] - g[a] ELSE g[a] - f[a]])

\* strategyDiversityReport over the selectable combos.
Diversity(spot) ==
    LET vectors == [combo \in DOMAIN spot.strategy |-> spot.strategy[combo].frequencies]
    IN  [combos |-> Cardinality(DOMAIN vectors), distinct |-> Cardinality(Range(vectors))]

Uniform(report) == report.combos > 1 /\ report.distinct = 1

\* Mutant: a collapse is only suspected of a large range.
CollapsedOnlyLarge(spot) ==
    /\ Uniform(Diversity(spot))
    /\ \E a \in DOMAIN spot.allIn :
          spot.allIn[a] /\ spot.strategy[spot.featured].frequencies[a] = Total
    /\ Diversity(spot).combos >= ManyCombos

\* assertPublishableStrategyQuality: every hand goes all-in the same way.
Collapsed(spot) ==
    /\ Uniform(Diversity(spot))
    /\ \E a \in DOMAIN spot.allIn :
          spot.allIn[a] /\ spot.strategy[spot.featured].frequencies[a] = Total
    /\ Len(spot.allIn) >= 3 \/ Diversity(spot).combos >= ManyCombos

Normalizes(item) ==
    Playable(item) /\ SeatsAgree(item) /\ ValidSeats(Envelope(item)) /\ ValidStrategy(Envelope(item))

Importable(item) ==
    Provenanced(item) /\ Converged(item) /\ Normalizes(item) /\ ~Collapsed(Envelope(item))
=============================================================================
