------------------------------ MODULE Variables ------------------------------
(***************************************************************************)
(* The value of a variable (_ComputableValue.expand, namespace.py): a text *)
(* is searched for patterns !{name}, and each is replaced by the value of  *)
(* that variable as the container that asks sees it, until no pattern is   *)
(* left. The calls of _expand that are not done are a stack of frames; the *)
(* set of names in expansion is kept beside it, as in the code.            *)
(*                                                                         *)
(* A text is a sequence of names, each for its pattern, and of other       *)
(* words. What a reference or a callable yields is taken to have no        *)
(* pattern in it.                                                          *)
(***************************************************************************)
EXTENDS Namespace

CONSTANTS Words,      \* what texts have besides patterns
          Known,      \* the word for a value of the infra model, once there is one
          Called      \* the word for what a callable yields

VARIABLES asked,      \* [name, context, mode] of the question, or None
          stack,      \* the frames, the outermost first
          history,    \* the names that are being expanded
          answer      \* of the question last asked

(* The values of variables: a text, nothing, a reference, a callable. What *)
(* is asked may leave patterns that have no variable, and then either      *)
(* raise or have them in the answer; by default it gets None.              *)
Value(v) == v.is \in {"text", "nothing", "reference", "callable"} /\ v.text \in Seq(Names \cup Words)
Modes == {"default", "allow", "raise"}
Errors == {"loop", "unable", "not callable"}
NoneWord == "None"    \* str(None)

ASSUME VariablesAssumption ==
  /\ Names \cap Words = {} /\ {NoneWord, Known, Called} \subseteq Words
  /\ \A v \in Values : Value(v)
  /\ IsFiniteSet(Names) /\ None \notin Seq(Names \cup Words)
  /\ None \notin [context : Seq({Template} \cup STRING \cup Keys), name : Names, mode : Modes]
  /\ \A M \in Shapes : \A q \in M.asks : q[2] \in Names /\ q[3] \in Modes

question == <<asked, stack, history, answer>>
Fresh == [is |-> "nothing"]
Text(t) == [is |-> "text", text |-> t]
Error(e) == [is |-> "error", text |-> e]

InitExpansion == asked = None /\ stack = <<>> /\ history = {} /\ answer = Fresh

InitV == Init /\ InitExpansion

-----------------------------------------------------------------------------
Finds(n) == find_variable(asked.context, n)
IsPattern(t, i) == t[i] \in Names
Patterns(t) == IF t = None THEN {} ELSE {i \in DOMAIN t : IsPattern(t, i)}
FirstPattern(t) == CHOOSE i \in Patterns(t) : \A j \in Patterns(t) : i <= j

(* What a call of _expand begins with: the text to search, or a result at  *)
(* once. The model itself cannot evaluate a callable.                      *)
Begins(n, c) ==
  LET v == find_variable(c, n) IN
  CASE v.is = "text"      -> v.text
    [] v.is = "callable"  -> <<Called>>
    [] v.is = "nothing"   -> None
    [] v.is = "reference" -> IF find_infra_model(c, infra) = None THEN None ELSE <<Known>>
Entered(n, c) ==
  [name |-> n, text |-> Begins(n, c), done |-> find_variable(c, n).is \in {"nothing", "reference"}]
Enters(n, c) == find_variable(c, n).is = "callable" => c # Root

Give(a) == stack' = <<>> /\ history' = {} /\ answer' = a /\ UNCHANGED asked

(* expand: a new history, which does not have the name that is asked for.  *)
Ask(c, n, mode) ==
  /\ asked = None
  /\ find_variable(c, n) # None
  /\ asked' = [context |-> c, name |-> n, mode |-> mode]
  /\ history' = {}
  /\ IF Enters(n, c) THEN stack' = <<Entered(n, c)>> /\ UNCHANGED answer
     ELSE stack' = <<>> /\ answer' = Error("not callable")
  /\ UNCHANGED vars

Top == stack[Len(stack)]
Searching == stack # <<>> /\ ~Top.done /\ Patterns(Top.text) # {}
NextName == Top.text[FirstPattern(Top.text)]

Loop ==
  /\ Searching /\ NextName \in history
  /\ Give(Error("loop"))
  /\ UNCHANGED vars

(* Only the outermost call is told to raise.                               *)
Raises == asked.mode = "raise" /\ Len(stack) = 1
Allowed(t) == IF asked.mode = "allow" THEN t ELSE None

Missing ==
  /\ Searching /\ NextName \notin history
  /\ Finds(NextName) = None
  /\ IF Raises THEN Give(Error("unable"))
     ELSE /\ stack' = [stack EXCEPT ![Len(stack)].done = TRUE,
                                    ![Len(stack)].text = Allowed(@)]
          /\ UNCHANGED <<asked, history, answer>>
  /\ UNCHANGED vars

Expand ==
  /\ Searching /\ NextName \notin history
  /\ Finds(NextName) # None
  /\ IF Enters(NextName, asked.context)
     THEN /\ stack' = Append(stack, Entered(NextName, asked.context))
          /\ history' = history \cup {NextName}
          /\ UNCHANGED <<asked, answer>>
     ELSE Give(Error("not callable"))
  /\ UNCHANGED vars

(* A call returns: its result replaces the pattern, and its name may be    *)
(* expanded again.                                                         *)
AsIs(t) == IF t = None THEN <<None>> ELSE t    \* a deviation
Str(t) == IF t = None THEN <<NoneWord>> ELSE t
NoTrailer(f, t) ==    \* a deviation
  [f EXCEPT !.text = SubSeq(@, 1, FirstPattern(f.text) - 1) \o t]
NotReplaced(f, t) == f    \* a deviation
Spliced(f, t) ==
  LET i == FirstPattern(f.text)
  IN [f EXCEPT !.text = SubSeq(@, 1, i - 1) \o t \o SubSeq(@, i + 1, Len(@))]

Keep(h, n) == h    \* a deviation
Forget(h, n) == h \ {n}

Return ==
  /\ stack # <<>> /\ (Top.done \/ Patterns(Top.text) = {})
  /\ IF Len(stack) = 1
     THEN Give(IF Top.text = None THEN Fresh ELSE Text(Top.text))
     ELSE /\ stack' = [Front(stack) EXCEPT ![Len(stack) - 1] = Spliced(@, Str(Top.text))]
          /\ history' = Forget(history, Top.name)
          /\ UNCHANGED <<asked, answer>>
  /\ UNCHANGED vars

Expansion == Loop \/ Missing \/ Expand \/ Return

(* One question is asked, of the namespace as it has become.               *)
NextV ==
  \/ asked = None /\ Next /\ UNCHANGED question
  \/ Expansion
  \/ \E q \in shape.asks : q[1] \in node /\ Ask(q[1], q[2], q[3])

varsV == <<vars, question>>
SpecV == InitV /\ [][NextV]_varsV
FairSpecV == SpecV /\ WF_varsV(Expansion)

-----------------------------------------------------------------------------
(* Types; what is asked is asked from a container that there is, and the   *)
(* answer is a text or an error.                                           *)
TypeOKV ==
  /\ TypeOK
  /\ asked \in [context : node, name : Names, mode : Modes] \cup {None}
  /\ \A i \in DOMAIN stack :
       /\ stack[i].name \in Names /\ stack[i].done \in BOOLEAN
       /\ stack[i].text \in Seq(Names \cup Words) \cup {None}
  /\ history \subseteq Names
  /\ answer = Fresh \/ (answer.is = "text" /\ answer.text \in Seq(Words \cup Names))
     \/ (answer.is = "error" /\ answer.text \in Errors)

(* The history is that of the calls in progress, but for the outermost,    *)
(* and no name is in it twice: so a loop is found after as many calls as   *)
(* there are names.                                                        *)
HistoryIsTheStack ==
  /\ history = {stack[i].name : i \in 2 .. Len(stack)}
  /\ \A i, j \in 2 .. Len(stack) : stack[i].name = stack[j].name => i = j

Answered == asked # None /\ stack = <<>>

(* A name needs those in its text, as the container that asks sees it.     *)
Needs(c, n) ==
  LET v == find_variable(c, n) IN
  IF v = None \/ v.is # "text" THEN {} ELSE Names \cap Range(v.text)
Reach(c, n) ==    \* in one or more steps
  LET within[k \in Nat] == IF k = 0 THEN Needs(c, n)
                           ELSE within[k - 1] \cup UNION {Needs(c, m) : m \in within[k - 1]}
  IN within[Cardinality(Names)]
Involved(c, n) == {n} \cup Reach(c, n)
Cyclic(c, n) == \E m \in Involved(c, n) : m \in Reach(c, m)
Complete(c, n) == \A m \in Involved(c, n) : find_variable(c, m) # None
Computable(c, n) == \A m \in Involved(c, n) : Enters(m, c)

ValueIn(c) ==
  LET value[k \in Nat] ==
        [n \in Names |->
           LET e == Entered(n, c) IN
           IF find_variable(c, n) = None \/ e.text = None THEN None
           ELSE FlattenSeq([i \in DOMAIN e.text |->
                  IF IsPattern(e.text, i) /\ ~e.done /\ k > 0 THEN Str(value[k - 1][e.text[i]])
                  ELSE <<e.text[i]>>])]
  IN value[Cardinality(Names)]

(* A loop is an error when there is one, and never an expansion without    *)
(* end; what merely uses a name twice is no loop. Where nothing is missing *)
(* and nothing loops, the answer is the text with each pattern replaced by *)
(* its own value, the same for all who ask in whatever mode.               *)
AnswersAreValues ==
  Answered =>
    LET c == asked.context  n == asked.name IN
    /\ answer = Error("loop") => Cyclic(c, n)
    /\ Complete(c, n) /\ Computable(c, n) =>
         answer = IF Cyclic(c, n) THEN Error("loop")
                  ELSE IF ValueIn(c)[n] = None THEN Fresh ELSE Text(ValueIn(c)[n])

(* Every expansion ends.                                                   *)
ExpansionEnds == stack # <<>> ~> stack = <<>>
=============================================================================
