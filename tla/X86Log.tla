------------------------------- MODULE X86Log -------------------------------
(***************************************************************************)
(* The log buffer of a machine: x86emu_set_log(), x86emu_log(),            *)
(* x86emu_clear_log() (api.c) and the writers in decode.c, which ask for   *)
(* room once, or not at all, and write without looking again.              *)
(*                                                                         *)
(* A log is a record: its size, the bytes used, whether there is a flush   *)
(* function, and the messages in the buffer.  A message is identified by   *)
(* its length in bytes.                                                    *)
(***************************************************************************)
EXTENDS Integers, Sequences

NoLog == [size |-> 0, used |-> 0, flush |-> FALSE, text |-> <<>>]

(* LOG_FREE *)
Room(log) == log.size - log.used

(* x86emu_clear_log(): the log behind it, and what was flushed *)
Cleared(log) == [log EXCEPT !.used = 0, !.text = <<>>]
Flushed(log) == IF log.flush /\ log.used # 0 THEN log.text ELSE <<>>

Appended(log, n) == [log EXCEPT !.used = log.used + n, !.text = Append(log.text, n)]

(* Mutant: a message that does not fit is dropped without a second try. *)
SaidOnce(log, n) ==
  IF n < Room(log) THEN [log |-> Appended(log, n), sent |-> <<>>, lost |-> FALSE]
  ELSE [log |-> log, sent |-> <<>>, lost |-> n >= log.size]

(* x86emu_log() with n bytes, and a terminating NUL *)
Said(log, n) ==
  IF n < Room(log) THEN [log |-> Appended(log, n), sent |-> <<>>, lost |-> FALSE]
  ELSE IF n < log.size
  THEN [log |-> Appended(Cleared(log), n), sent |-> Flushed(log), lost |-> FALSE]
  ELSE [log |-> Cleared(log), sent |-> Flushed(log), lost |-> TRUE]

(* log_code(), log_regs(), handle_interrupt(), decode_memio() ..: n bytes  *)
(* behind a check for guard bytes.  x86emu_run() writes "* timeout" and    *)
(* the other reasons of its end behind no check at all: its guard is 0.    *)
Noted(log, guard, n) ==
  LET full == Room(log) < guard
      l    == IF full THEN Cleared(log) ELSE log
      sent == IF full THEN Flushed(log) ELSE <<>>
  IN  IF Room(l) < guard THEN [log |-> l, sent |-> sent, lost |-> TRUE]
      ELSE [log |-> Appended(l, n), sent |-> sent, lost |-> FALSE]
=============================================================================
