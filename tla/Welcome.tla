------------------------------ MODULE Welcome ------------------------------
(***************************************************************************)
(* The banner a user's first command begins with: maybeShowFirstRunWelcome *)
(* (cmd/welcome.go).  A marker file keeps it from being shown again.       *)
(*                                                                         *)
(* The banner is drawn on standard error, in several writes with pauses    *)
(* between them.  Nobody looks at what the writes return, nor whether      *)
(* standard error is a terminal: a banner drawn to its end may be lost.    *)
(***************************************************************************)
EXTENDS OriProcess

VARIABLES
  marker,    \* the marker file exists
  greeting,  \* of the command that runs: "due", "drawing", "drawn", or "over"
  banner     \* the last one drawn to its end: "none", "lost" or "seen"

welcome == <<marker, greeting, banner>>

WelcomeInit == marker = FALSE /\ greeting = "over" /\ banner = "none"

\* The banner is for a terminal on standard output, and never for JSON output; the
\* environment may turn it off.
Greets(c) == IF c.json THEN {"over"} ELSE {"due", "over"}

WelcomeStart(c) ==
  /\ greeting' \in IF marker THEN {"over"} ELSE Greets(c)
  /\ UNCHANGED <<marker, banner>>

\* The command's own work begins when the greeting is over.
Welcomed == greeting = "over"

Greeting(from, to) == status = Running /\ greeting = from /\ greeting' = to

\* The marker's directory cannot be made.
CannotGreet ==
  /\ Greeting("due", "over")
  /\ UNCHANGED <<process, marker, banner>>

\* Mutant: the marker is written before the banner.
BeginsBannerMarked ==
  /\ Greeting("due", "drawing")
  /\ marker' = TRUE
  /\ UNCHANGED <<process, banner>>

\* The marker's directory is there.
BeginsBanner ==
  /\ Greeting("due", "drawing")
  /\ UNCHANGED <<process, marker, banner>>

EndsBanner ==
  /\ Greeting("drawing", "drawn")
  /\ banner' \in {"lost", "seen"}
  /\ UNCHANGED <<process, marker>>

\* A write that fails may have made the file; its error is ignored too.
WritesMarker ==
  /\ Greeting("drawn", "over")
  /\ marker' \in BOOLEAN
  /\ UNCHANGED <<process, banner>>

KilledInWelcome ==
  /\ status = Running /\ greeting # "over"
  /\ status' = Signalled /\ greeting' = "over"
  /\ UNCHANGED <<command, stdout, marker, banner>>

WelcomeNext == CannotGreet \/ BeginsBanner \/ EndsBanner \/ WritesMarker \/ KilledInWelcome

\* A user is never marked as greeted before some command has drawn the banner to
\* its end: one killed in the middle of it, or on either side of it, greets again.
\* That anybody saw it is not said (welcome.go:28-51, 137-140).
MarkedIfGreeted == marker => banner # "none"
=============================================================================
