----------------------------- MODULE OriProcess -----------------------------
(***************************************************************************)
(* One `ori` command after another at a shell: what runs, what it has      *)
(* written to standard output, and how it ended.  ExecuteWithOptions       *)
(* (cmd/root.go) turns the error a command returns into an exit status.    *)
(***************************************************************************)
EXTENDS Integers, Sequences

NoCommand == [name |-> "none", json |-> FALSE]

Running == -1
Signalled == 130   \* the process died of a signal

VARIABLES
  command,   \* the command that ran last, a record with name and json
  stdout,    \* what it wrote to standard output, an entry for each object or report
  status     \* Running, or how it ended

process == <<command, stdout, status>>

\* A failure that is already on standard output and an error exit with 1, a
\* refusal with a status of its own.
ExitStatus(err) == IF err = "none" THEN 0 ELSE IF err = "refused" THEN 2 ELSE 1

\* The command writes what and returns err.
Returns(err, what) ==
  /\ status = Running
  /\ stdout' = stdout \o what
  /\ status' = ExitStatus(err)
  /\ UNCHANGED command

Starts(c) ==
  /\ command = NoCommand
  /\ command' = c
  /\ status' = Running
  /\ UNCHANGED stdout

\* The shell has its prompt again.
ProcessInit == command = NoCommand /\ stdout = <<>> /\ status = 0

ProcessOver ==
  /\ command # NoCommand /\ status # Running
  /\ command' = NoCommand /\ stdout' = <<>> /\ status' = 0

IsRunning(names) == status = Running /\ command.name \in names
=============================================================================
