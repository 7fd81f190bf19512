------------------------------ MODULE Solution ------------------------------
(***************************************************************************)
(* A solution from the solver's files to a player's score: the import      *)
(* normalizes it (Normalization), the public API reads the stored version  *)
(* (readPublicSpot), the contract admits a submission, and createAttempt   *)
(* scores it (src/scoring.ts).  One step per call, over every source file  *)
(* and submission of the instance.                                         *)
(*                                                                         *)
(* Points are basis points divided by PointUnit, 10 in the code.           *)
(***************************************************************************)
EXTENDS Normalization

CONSTANTS
    Items,       \* solver files that may be imported
    LegacySpots, \* rows stored by earlier versions of the normalizer
    Submissions, \* the hands a player may submit: sequences of combo and allocations
    MaxHands,    \* MAX_ATTEMPT_HANDS
    PointUnit    \* basis points per point

IsName(name) == name = [seat |-> name.seat, lower |-> name.lower, padded |-> name.padded]
IsCombo(combo) == combo = <<combo[1], combo[2]>>
IsStory(story) == story = None \/ \A lane \in Lanes : IsFiniteSet(story[lane]) /\ \A name \in story[lane] : IsName(name)

ASSUME NumbersAssumption ==
    /\ Total \in Nat \ {0} /\ PointUnit \in Nat \ {0} /\ Total % PointUnit = 0
    /\ MaxHands \in Nat /\ MinReach \in Int /\ ManyCombos \in Int

\* Files that parse: lines of the log with their numbers and lines of the input,
\* hands of two cards, weights that are not negative, names of seats.
ASSUME ItemsAssumption ==
    \A i \in Items :
        /\ i.log \in Seq([kind : {"iter", "total", "text"}, value : Int]) /\ i.config.minimum \in Int
        /\ i.input = [k \in 1 .. Len(i.input) |-> i.input[k]] /\ Len(i.input) \in Nat
        /\ i.allIn \in Seq(BOOLEAN)
        /\ None \notin ToSet(i.keys)
        /\ \A combo \in ToSet(i.keys) : IsCombo(combo) /\ i.byCombo[combo].weights \in Seq(Nat)
        /\ IsStory(i.story) /\ \A lane \in Lanes : i.shown[lane] # None => IsName(i.shown[lane])

\* Rows of earlier normalizers, which checked the strategy; the seats may be
\* generic, or anything else, whatever the story tells.
ASSUME LegacyAssumption ==
    \A row \in LegacySpots :
        /\ row # None
        /\ row = [allIn |-> row.allIn, order |-> row.order, strategy |-> row.strategy, featured |-> row.featured,
                  story |-> row.story, positions |-> [lane \in Lanes |-> row.positions[lane]],
                  dealer |-> row.dealer, configuration |-> row.configuration]
        /\ row.allIn \in Seq(BOOLEAN) /\ ValidStrategy(row) /\ None \notin DOMAIN row.strategy
        /\ \A combo \in DOMAIN row.strategy : IsCombo(combo) /\ row.strategy[combo].frequencies \in Seq(Nat)
        /\ IsStory(row.story) /\ \A lane \in Lanes : IsName(row.positions[lane])

\* What the schema of a submission lets through.
ASSUME SubmissionsAssumption ==
    \A submission \in Submissions :
        /\ submission = [i \in 1 .. Len(submission) |-> submission[i]] /\ Len(submission) \in Nat
        /\ \A i \in DOMAIN submission : submission[i].allocations \in Seq(Nat)

VARIABLES
    item,    \* the files an import works on, or None
    stored,  \* the SpotVersion row: public and private payload, or None
    view,    \* what readPublicSpot makes of it, or None
    hands,   \* the hands submitted
    answer   \* how far the submission got, or its result

vars == <<item, stored, view, hands, answer>>

-----------------------------------------------------------------------------
(* Reading a stored version.                                               *)

ReadPositions(spot) ==
    [lane \in Lanes |->
        IF ToldSeats(spot.story, lane) = {} THEN spot.positions[lane]
        ELSE TheOne(ToldSeats(spot.story, lane))]

\* Mutant: names are compared as they are spelled.
ReadablySpelled(spot) ==
    \A lane \in Lanes :
        /\ Cardinality(ToldSeats(spot.story, lane)) <= 1
        /\ \A name \in ToldSeats(spot.story, lane) : spot.positions[lane] \in {Name(lane), name}

\* The story's positions replace generic ones; other stored names must agree.
Readable(spot) ==
    spot.story # None =>
        /\ \A lane \in Lanes :
              /\ Cardinality(ToldSeats(spot.story, lane)) <= 1
              /\ \A name \in ToldSeats(spot.story, lane) :
                    Upper(spot.positions[lane]) \in {Name(lane), name}
        /\ Buttons(ReadPositions(spot)) # Lanes

\* Mutant: the stored dealer is kept.
ReadKeepingDealer(spot) == [spot EXCEPT !.positions = ReadPositions(spot)]

ReadPublicSpot(spot) ==
    LET buttons == Buttons(ReadPositions(spot))
    IN  IF spot.story = None THEN spot
        ELSE [spot EXCEPT !.positions = ReadPositions(spot),
                          !.dealer = IF buttons = {} THEN @ ELSE TheOne(buttons)]

-----------------------------------------------------------------------------
(* The contract of a submission (package @poker-trainer/contracts).        *)

Admitted(spot, submission) ==
    LET offered == UNION {ToSet(Variants(combo)) : combo \in DOMAIN spot.strategy}
        combos  == {submission[i].combo : i \in DOMAIN submission}
    IN  /\ Len(submission) \in 1 .. MaxHands
        /\ Cardinality(combos) = Len(submission)
        /\ combos \subseteq offered
        /\ combos \cap ToSet(Variants(spot.featured)) # {}
        /\ \A i \in DOMAIN submission :
              /\ DOMAIN submission[i].allocations = DOMAIN spot.allIn
              /\ SumFunction(submission[i].allocations) = Total

-----------------------------------------------------------------------------
(* Scoring.                                                                *)

\* Math.round of a quotient, half up.
Round(n, d) == (2 * n + d) \div (2 * d)

\* Mutant: only the stored spelling is looked up.
ResolveStoredSpelling(strategy, combo) == IF combo \in DOMAIN strategy THEN combo ELSE None

ResolveExactCombo(strategy, combo) == Resolve(combo, DOMAIN strategy)

Available(strategy, combo) ==
    LET exact == ResolveExactCombo(strategy, combo)
    IN  exact # None /\ Active(strategy[exact].reach)

L1(predicted, gto) == Max({0, Min({Total, Round(2 * Total - Distance(predicted, gto), 2)})})

Majority(gto) ==
    CHOOSE a \in DOMAIN gto : \A b \in DOMAIN gto : gto[b] < gto[a] \/ (gto[b] = gto[a] /\ a <= b)

ScoreHand(strategy, hand) ==
    LET gto == strategy[ResolveExactCombo(strategy, hand.combo)].frequencies
    IN  [similarity |-> L1(hand.allocations, gto), majority |-> Majority(gto),
         differences |-> [a \in DOMAIN gto |-> hand.allocations[a] - gto[a]]]

\* Mutant: the mean is taken over the hands a submission may have.
ScoreOverLimit(strategy, submission) ==
    LET results    == [i \in DOMAIN submission |-> ScoreHand(strategy, submission[i])]
        sum        == SumFunction([i \in DOMAIN results |-> results[i].similarity])
        similarity == Round(sum, MaxHands)
    IN  [result |-> "scored", hands |-> results, similarity |-> similarity,
         points |-> Round(similarity, PointUnit)]

Score(strategy, submission) ==
    LET results    == [i \in DOMAIN submission |-> ScoreHand(strategy, submission[i])]
        sum        == SumFunction([i \in DOMAIN results |-> results[i].similarity])
        similarity == Round(sum, Len(results))
    IN  [result |-> "scored", hands |-> results, similarity |-> similarity,
         points |-> Round(similarity, PointUnit)]

-----------------------------------------------------------------------------
Pending == [result |-> "none"]

\* An import of new files, or a row that is there already.
Init ==
    /\ \/ item \in Items /\ stored = None
       \/ item = None /\ stored \in LegacySpots
    /\ view = None
    /\ hands = <<>>
    /\ answer = Pending

ImportSpot ==
    /\ item # None /\ stored = None /\ answer = Pending
    /\ IF Importable(item)
       THEN stored' = Envelope(item) /\ UNCHANGED answer
       ELSE answer' = [result |-> "rejected"] /\ UNCHANGED stored
    /\ UNCHANGED <<item, view, hands>>

\* getSpot, and the first lines of createAttempt; the import's files are gone.
Read ==
    /\ stored # None /\ view = None /\ answer = Pending
    /\ IF Readable(stored)
       THEN view' = ReadPublicSpot(stored) /\ UNCHANGED answer
       ELSE answer' = [result |-> "unreadable"] /\ UNCHANGED view
    /\ item' = None
    /\ UNCHANGED <<stored, hands>>

Submit(submission) ==
    /\ view # None /\ answer = Pending
    /\ hands' = submission
    /\ answer' =
          IF ~Admitted(view, submission) THEN [result |-> "refused"]
          ELSE IF \E i \in DOMAIN submission : ~Available(stored.strategy, submission[i].combo)
          THEN [result |-> "unavailable"]
          ELSE Score(stored.strategy, submission)
    /\ UNCHANGED <<item, stored, view>>

Next == ImportSpot \/ Read \/ \E submission \in Submissions : Submit(submission)

Spec == Init /\ [][Next]_vars

-----------------------------------------------------------------------------
(* Properties.                                                             *)

Imported == item # None /\ stored # None
Scored == answer.result = "scored"

\* Whatever weights the solver reports, the stored frequencies of a hand are a
\* fair rounding of them: they add up to the whole, each is its quota rounded
\* down or up, an action the solver never takes stays at zero and none goes
\* negative, and no action overtakes one of greater weight.
FairlyApportioned ==
    Imported => \A combo \in DOMAIN stored.strategy :
        LET f == stored.strategy[combo].frequencies
            w == item.byCombo[combo].weights
            sum == SumFunctionOnSet(w, DOMAIN f)
        IN  /\ SumFunction(f) = Total
            /\ \A a \in DOMAIN f :
                  /\ f[a] * sum > w[a] * Total - sum /\ f[a] * sum < w[a] * Total + sum
                  /\ w[a] = 0 => f[a] = 0
                  /\ \A b \in DOMAIN f : w[a] > w[b] => f[a] >= f[b]

\* No import takes a solve whose evidence does not hold: the last checkpoint of
\* its log from the required iterations on meets the target, the story stored and
\* the ranges solved (the last line of the input for each player, in any order of
\* the tokens) are those of the configuration named in it, every hand on offer is
\* one the line really reaches, and at a decision of three actions it does not
\* put every hand all-in.
OnlySoundSolves ==
    Imported =>
        /\ \E i \in DOMAIN item.log :
              /\ item.log[i].kind = "total" /\ item.log[i].value <= item.config.target
              /\ Iteration(item.log, i) >= item.config.minimum
              /\ \A j \in (i + 1) .. Len(item.log) :
                    item.log[j].kind = "total" => Iteration(item.log, j) < item.config.minimum
        /\ stored.configuration = item.config.hash /\ stored.story = item.config.story
        /\ \A lane \in Lanes : \E i \in DOMAIN item.input :
              /\ item.input[i].lane = lane
              /\ \A j \in (i + 1) .. Len(item.input) : item.input[j].lane # lane
              /\ ToBag(item.input[i].tokens) = ToBag(item.config.ranges[lane])
        /\ \A combo \in DOMAIN stored.strategy : EffectiveReach(item, combo) >= MinReach
        /\ ~ \E a \in DOMAIN stored.allIn :
              /\ stored.allIn[a] /\ Len(stored.allIn) >= 3 /\ Cardinality(DOMAIN stored.strategy) > 1
              /\ \A combo \in DOMAIN stored.strategy, b \in DOMAIN stored.allIn :
                    b # a => item.byCombo[combo].weights[b] = 0

\* The ways to seat both players that agree with what the story tells and with
\* the stored positions, where IP and OOP give way to the story; the button goes
\* to one of them at most.
Seatings(spot) ==
    {seats \in [Lanes -> UNION {ToldSeats(spot.story, lane) \cup {spot.positions[lane]} : lane \in Lanes}] :
        /\ \A lane \in Lanes :
              /\ ToldSeats(spot.story, lane) \subseteq {seats[lane]}
              /\ \/ Upper(seats[lane]) = Upper(spot.positions[lane])
                 \/ ToldSeats(spot.story, lane) # {} /\ Upper(spot.positions[lane]) = Name(lane)
        /\ \E lane \in Lanes : ~IsButton(seats[lane])}

\* Whoever reads a version with a preflop story sees the players in seats that
\* agree with it and the dealer on the button.  The reader refuses a row only
\* when no seats do, and an import never stores such a row; rows of earlier
\* normalizers may be of that kind.
ReadersSeeTheStory ==
    /\ Imported /\ stored.story # None => Seatings(stored) # {}
    /\ answer.result = "unreadable" => stored.story # None /\ Seatings(stored) = {}
    /\ view # None /\ stored.story # None =>
          /\ view.positions \in Seatings(stored)
          /\ \A lane \in Lanes : IsButton(view.positions[lane]) => view.dealer = lane

\* What the contract admits can be scored, in either spelling: the contract
\* looks at the public payload and the scoring at the private one, and they
\* never disagree on which hands there are.  A hand is scored by the overlap of
\* the submitted and the stored strategy of this very holding.
AdmittedHandsScore ==
    /\ answer.result # "unavailable"
    /\ Scored => \A i \in DOMAIN hands :
          \E combo \in ToSet(Variants(hands[i].combo)) \cap DOMAIN stored.strategy :
              LET f == stored.strategy[combo].frequencies
                  overlap == [a \in DOMAIN f |-> Min({f[a], hands[i].allocations[a]})]
              IN  /\ hands[i].combo \in DOMAIN stored.strategy => combo = hands[i].combo
                  /\ answer.hands[i].similarity = SumFunction(overlap)
                  /\ SumFunction(answer.hands[i].differences) = 0
                  /\ f[answer.hands[i].majority] = Max(Range(f))

\* The points of an attempt lie between none and the maximum; playing the stored
\* frequencies of every hand earns the maximum, missing them all earns nothing,
\* and no hand played closer, others alike, ever costs a point.
PointsReflectHands ==
    Scored =>
        LET maximum == Total \div PointUnit
            s == [i \in DOMAIN hands |-> answer.hands[i].similarity]
        IN  /\ answer.points \in 0 .. maximum
            /\ (\A i \in DOMAIN s : s[i] = Total) => answer.points = maximum
            /\ (\A i \in DOMAIN s : s[i] = 0) => answer.points = 0
            /\ \A better \in Submissions :
                  /\ Admitted(view, better) /\ Len(better) = Len(hands)
                  /\ \A i \in DOMAIN hands : ScoreHand(stored.strategy, better[i]).similarity >= s[i]
                  => Score(stored.strategy, better).points >= answer.points
=============================================================================
