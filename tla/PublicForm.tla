----------------------------- MODULE PublicForm -----------------------------
(***************************************************************************)
(* src/handlers/public.rs: the anonymous report form and the status page,  *)
(* beside the workflow that moves the reports.                             *)
(*                                                                         *)
(*   POST /report/new     validate, draw a token -> insert -> receipt      *)
(*   POST /report/status  SELECT by token                                  *)
(*                                                                         *)
(* A submission of the form is a process; the reporter behind it can look  *)
(* the report up once the receipt page, the only one with the token, came. *)
(***************************************************************************)
EXTENDS Workflow

CONSTANTS
    Form,                \* submissions of the form
    Token,               \* reporter tokens the generator may draw
    Summaries, Bodies,   \* trimmed texts reporters post
    Emails,              \* trimmed e-mail fields: "" is none at all
    Severities, Channels \* values of the two selects, or anything else

\* A text is known by its length as str::len() gives it: in bytes.
Text == Nat
EmailField == {"", "address", "noise"}   \* "noise": no @, or over 254 bytes

\* A status page: of a report, or the banner that none has that code.
Answer == [report : Report \cup {Null}, status : Status \cup {Null}]

ASSUME PublicAssumption ==
    /\ Null \notin Token \cup Form \cup Answer
    /\ Summaries \subseteq Text /\ Bodies \subseteq Text /\ Emails \subseteq EmailField

SummaryMin == 5
SummaryMax == 200
BodyMin == 10
BodyMax == 50000
SeverityAllowed == {"low", "medium", "high", "critical"}
ChannelAllowed == {"web", "phone", "in_person", "email"}

VARIABLES
    token,   \* reports.reporter_token, UNIQUE
    fm       \* the submissions
publicVars == <<vars, token, fm>>

Banner == {"summaryShort", "summaryLong", "bodyShort", "bodyLong",
           "severity", "channel", "email"}

\* `told' is the status page the reporter saw last.
Submission ==
    [stage : {"blank", "refused", "insert", "receipt", "held", "lost"},
     summary : Summaries \cup {Null}, body : Bodies \cup {Null}, email : BOOLEAN,
     banner : Banner \cup {Null}, token : Token \cup {Null}, report : Report \cup {Null},
     told : Answer \cup {Null}]
Unsent == [stage |-> "blank", summary |-> Null, body |-> Null, email |-> FALSE,
           banner |-> Null, token |-> Null, report |-> Null, told |-> Null]

\* validate: the checks in their order, lengths by str::len(), which counts
\* bytes; the banner is that of the first to fail.
\* Mutant: the select's check has an empty banner.
Checks_NoBanner(summary, body, severity, channel, email) ==
    << [fails |-> summary < SummaryMin, says |-> "summaryShort"],
       [fails |-> summary > SummaryMax, says |-> "summaryLong"],
       [fails |-> body < BodyMin, says |-> "bodyShort"],
       [fails |-> body > BodyMax, says |-> "bodyLong"],
       [fails |-> severity \notin SeverityAllowed, says |-> ""],
       [fails |-> channel \notin ChannelAllowed, says |-> "channel"],
       [fails |-> email = "noise", says |-> "email"] >>
Checks(summary, body, severity, channel, email) ==
    << [fails |-> summary < SummaryMin, says |-> "summaryShort"],
       [fails |-> summary > SummaryMax, says |-> "summaryLong"],
       [fails |-> body < BodyMin, says |-> "bodyShort"],
       [fails |-> body > BodyMax, says |-> "bodyLong"],
       [fails |-> severity \notin SeverityAllowed, says |-> "severity"],
       [fails |-> channel \notin ChannelAllowed, says |-> "channel"],
       [fails |-> email = "noise", says |-> "email"] >>

Validate(summary, body, severity, channel, email) ==
    LET checks == Checks(summary, body, severity, channel, email)
        failing == {i \in 1..7 : checks[i].fails}
    IN  IF failing = {} THEN Null
        ELSE checks[CHOOSE i \in failing : \A j \in failing : i <= j].says

-----------------------------------------------------------------------------
\* Before the database: validate, then generate_reporter_token.
Post(f) ==
    /\ fm[f].stage = "blank"
    /\ \E summary \in Summaries, body \in Bodies, email \in Emails,
          severity \in Severities, channel \in Channels :
          LET banner == Validate(summary, body, severity, channel, email)
              x == [Unsent EXCEPT !.summary = summary, !.body = body,
                                  !.email = email # "", !.banner = banner]
          IN  IF banner # Null
              THEN fm' = [fm EXCEPT ![f] = [x EXCEPT !.stage = "refused"]]
              ELSE \E t \in Token :
                      fm' = [fm EXCEPT ![f] = [x EXCEPT !.stage = "insert", !.token = t]]
    /\ UNCHANGED <<vars, token>>

\* The UNIQUE constraint.  Mutant: the column is only indexed.
Unused_Any(t) == TRUE
Unused(t) == \A p \in Report : token[p] # t

\* The autocommitted INSERT: a drawn token that is taken is an error page.
Insert(f) ==
    LET x == fm[f] IN
    /\ x.stage = "insert"
    /\ Unused(x.token)
    /\ \E p \in Report :
          /\ Submit(p)
          /\ reports'[p].email = x.email
          /\ token' = [token EXCEPT ![p] = x.token]
          /\ fm' = [fm EXCEPT ![f].stage = "receipt", ![f].report = p]

InsertFails(f) ==
    /\ fm[f].stage = "insert"
    /\ ConnectionFree
    /\ ~Unused(fm[f].token)
    /\ fm' = [fm EXCEPT ![f] = [Unsent EXCEPT !.stage = "lost"]]
    /\ UNCHANGED <<vars, token>>

\* render_success: the token is shown this once.
Receipt(f) ==
    /\ fm[f].stage = "receipt"
    /\ fm' = [fm EXCEPT ![f].stage = "held"]
    /\ UNCHANGED <<vars, token>>

\* A failed await, a reporter who hangs up, a response that never arrives:
\* the report may be stored and nobody holds its token.
LoseReceipt(f) ==
    /\ fm[f].stage \in {"insert", "receipt"}
    /\ fm' = [fm EXCEPT ![f] = [Unsent EXCEPT !.stage = "lost"]]
    /\ UNCHANGED <<vars, token>>

\* What the SELECT by token may return: one row of those that match, if any.
Found(t) == {p \in Known : token[p] = t}

\* do_status_lookup for the code on the receipt.  A code that is mistyped, of
\* the wrong shape or of nobody gets the same banner and changes nothing.
LookUp(f) ==
    LET found == Found(fm[f].token) IN
    /\ fm[f].stage = "held"
    /\ ConnectionFree
    /\ \/ /\ found = {}
          /\ fm' = [fm EXCEPT ![f].told = [report |-> Null, status |-> Null]]
       \/ \E p \in found :
             fm' = [fm EXCEPT ![f].told = [report |-> p, status |-> reports[p].status]]
    /\ UNCHANGED <<vars, token>>

FormStep(f) ==
    \/ Post(f) \/ Insert(f) \/ InsertFails(f) \/ Receipt(f) \/ LoseReceipt(f) \/ LookUp(f)

PublicInit ==
    /\ Init
    /\ token = [p \in Report |-> Null]
    /\ fm = [f \in Form |-> Unsent]

PublicNext ==
    \/ \E f \in Form : FormStep(f)
    \/ \E r \in Req : (Start(r) \/ Step(r) \/ Cancel(r)) /\ UNCHANGED <<token, fm>>
    \/ \E u \in User : Framework(u) /\ UNCHANGED <<token, fm>>

PublicSpec == PublicInit /\ [][PublicNext]_publicVars

-----------------------------------------------------------------------------
PublicTypeOK ==
    /\ token \in [Report -> Token \cup {Null}]
    /\ fm \in [Form -> Submission]

\* Whatever tokens the generator draws, a receipt opens the report it was
\* given for and no other (public.rs:587-596).
ReceiptOpensOwnReport ==
    \A f \in Form : fm[f].stage = "held" =>
       /\ Found(fm[f].token) = {fm[f].report}
       /\ fm[f].told # Null => fm[f].told.report = fm[f].report

\* How a report stands is read off `cases', not off the column the status
\* page reads: ReporterView holds only if the two tables never disagree.
Stands(p) ==
    IF reports[p] = Null THEN "unsent" ELSE IF HasCase(p) THEN "taken" ELSE "waiting"
News(x) ==
    IF x.told = Null THEN "nothing"
    ELSE IF x.told.status = "intake" THEN "waiting" ELSE "taken"

View == INSTANCE ReporterView WITH
    None <- Null,
    stands <- [p \in Report |-> Stands(p)],
    receipt <- [f \in Form |-> IF fm[f].stage = "held" THEN fm[f].report ELSE Null],
    news <- [f \in Form |-> News(fm[f])]

\* Every receipt is answered as ReporterView promises, whatever races.
ImplementsReporterView == View!Spec
=============================================================================
