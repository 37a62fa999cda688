------------------------------ MODULE ConsoleWrite ------------------------------
(***************************************************************************)
(* Writing to the console (platform/{linux,win32}/console.c).  On Linux a  *)
(* call of write may show less than it was asked to, be interrupted by a   *)
(* signal, or fail; the loop goes on, tries again, or gives up.  On        *)
(* Windows there is one call, whose result is not looked at.               *)
(*                                                                         *)
(* A text is a sequence of distinct bytes, the numbers 1, 2, ..            *)
(***************************************************************************)
EXTENDS Integers, SequencesExt

CONSTANTS
    BufferSize,     \* BUFFER_SIZE, where formatted text is put
    MaxLength       \* the texts are at most that long

ASSUME ConsoleAssumption ==
    /\ BufferSize \in Nat \ {0}
    /\ MaxLength \in Nat

VARIABLES
    platform,   \* "linux" or "win32"
    pc,         \* "idle", "write": the system is called, "check": it returned
    text,       \* history: what the last call of the application is to show
    message,    \* what the next call of write is given
    written,    \* what the last call of write returned
    shown       \* what the last call of the application has shown

consoleVars == <<platform, pc, text, message, written, shown>>

Interrupted == -1   \* -1, and errno is EINTR

Failed == -2        \* -1, and another errno

Texts == {[i \in 1 .. length |-> i] : length \in 0 .. MaxLength}

-----------------------------------------------------------------------------

ConsoleInit ==
    /\ platform \in {"linux", "win32"}
    /\ pc = "idle"
    /\ text = <<>>
    /\ message = <<>>
    /\ written = 0
    /\ shown = <<>>

\* An empty message is not written.
Begin(bytes) ==
    /\ pc = "idle"
    /\ pc' = IF bytes = <<>> THEN "idle" ELSE "write"
    /\ text' = bytes
    /\ message' = bytes
    /\ written' = 0
    /\ shown' = <<>>
    /\ UNCHANGED platform

Write(string) == Begin(string)

\* console_writef, console_vwritef: vsnprintf keeps one byte for the null.
WriteFormatted(string) == Begin(SubSeq(string, 1, Min({Len(string), BufferSize - 1})))

\* The system shows some of the message.
Shows(count) == shown' = shown \o SubSeq(message, 1, count)

LinuxWrites ==
    /\ pc = "write"
    /\ platform = "linux"
    /\ \E count \in 1 .. Len(message) : Shows(count) /\ written' = count
    /\ pc' = "check"
    /\ UNCHANGED <<platform, text, message>>

LinuxFails ==
    /\ pc = "write"
    /\ platform = "linux"
    /\ written' \in {0, Failed}
    /\ pc' = "check"
    /\ UNCHANGED <<platform, text, message, shown>>

LinuxInterrupts ==
    /\ pc = "write"
    /\ platform = "linux"
    /\ written' = Interrupted
    /\ pc' = "check"
    /\ UNCHANGED <<platform, text, message, shown>>

\* Mutation of Remaining: the pointer stays, only the size goes down.
RemainingFront(bytes, count) == SubSeq(bytes, 1, Len(bytes) - count)

Remaining(bytes, count) == SubSeq(bytes, count + 1, Len(bytes))

\* Mutation of Retries: after every error.
RetriesAlways(result) == result < 1

Retries(result) == result = Interrupted

\* The loop of linux_console_write_all.
GoOn ==
    /\ pc = "check"
    /\ written > 0
    /\ message' = Remaining(message, written)
    /\ pc' = IF message' = <<>> THEN "idle" ELSE "write"
    /\ UNCHANGED <<platform, text, written, shown>>

TryAgain ==
    /\ pc = "check"
    /\ Retries(written)
    /\ pc' = "write"
    /\ UNCHANGED <<platform, text, message, written, shown>>

GiveUp ==
    /\ pc = "check"
    /\ written <= 0
    /\ ~Retries(written)
    /\ pc' = "idle"
    /\ UNCHANGED <<platform, text, message, written, shown>>

\* WriteConsole, with no pointer to the number written.
WindowsWrites ==
    /\ pc = "write"
    /\ platform = "win32"
    /\ \E count \in 0 .. Len(message) : Shows(count)
    /\ pc' = "idle"
    /\ UNCHANGED <<platform, text, message, written>>

ConsoleNext ==
    \/ \E string \in Texts : Write(string) \/ WriteFormatted(string)
    \/ LinuxWrites
    \/ LinuxFails
    \/ LinuxInterrupts
    \/ GoOn
    \/ TryAgain
    \/ GiveUp
    \/ WindowsWrites

\* The program runs on, every call of the system returns, and a write that is
\* tried again and again is not interrupted each time.
ConsoleFairness ==
    /\ WF_consoleVars(GoOn \/ TryAgain \/ GiveUp)
    /\ WF_consoleVars(LinuxWrites \/ LinuxFails \/ LinuxInterrupts \/ WindowsWrites)
    /\ SF_consoleVars(LinuxWrites \/ LinuxFails)

ConsoleSpec == ConsoleInit /\ [][ConsoleNext]_consoleVars

FairConsoleSpec == ConsoleSpec /\ ConsoleFairness

-----------------------------------------------------------------------------
(* Properties                                                              *)

\* However the writes are cut and interrupted, what was shown is the beginning
\* of the text, with no byte twice and none left out; and on Linux a call that
\* did not give up has shown all of it.
ShowsTheText ==
    /\ IsPrefix(shown, text)
    /\ platform = "linux" /\ pc = "idle" /\ written > 0 => shown = text

\* A call to write to the console returns, also when the system fails for good.
WriteReturns == pc # "idle" ~> pc = "idle"

=============================================================================
