--------------------------- MODULE MessageFormat ---------------------------
(***************************************************************************)
(* Codec.h and Message.h: a list of messages as a body, and back.  A body  *)
(* is a sequence of units; a number is one unit whatever its width, a      *)
(* string as many units as it has characters.                              *)
(***************************************************************************)
EXTENDS Integers, Sequences

put_str(out, s) == Append(out, Len(s)) \o s

put_message(out, m) ==
  put_str(put_str(out \o <<m.id, m.sender_id, m.created_epoch>>, m.sender_nick), m.content)

\* serialize's loop: the body after each of the messages.
put_messages(in) ==
  LET out[i \in 0..Len(in)] == IF i = 0 THEN <<Len(in)>> ELSE put_message(out[i - 1], in[i])
  IN  out

\* mutant: the loop ends one message early.
serialize_Short(in) == put_messages(in)[IF in = << >> THEN 0 ELSE Len(in) - 1]

serialize(in) == put_messages(in)[Len(in)]

-----------------------------------------------------------------------------
(***************************************************************************)
(* The Reader is its offset; an offset of FAIL is a read that was refused, *)
(* and every later one is refused too, since parse returns at once.        *)
(***************************************************************************)
FAIL == -1

\* Every read compares what it wants with what is left.
take(body, off, n) == IF off = FAIL \/ off + n > Len(body) THEN FAIL ELSE off + n

take_str(body, off) ==
  LET length == take(body, off, 1) IN
  IF length = FAIL THEN FAIL ELSE take(body, length, body[length])

take_message(body, r) ==
  LET nick    == take(body, r.off, 3)
      content == take_str(body, nick)
      end     == take_str(body, content) IN
  [off |-> end,
   out |-> IF end = FAIL THEN r.out
           ELSE Append(r.out,
                  [id            |-> body[r.off + 1],
                   sender_id     |-> body[r.off + 2],
                   created_epoch |-> body[r.off + 3],
                   sender_nick   |-> SubSeq(body, nick + 2, content),
                   content       |-> SubSeq(body, content + 2, end)])]

\* parse's loop: the Reader, and the messages read, after each of them.
take_messages(body) ==
  LET r[i \in 0..body[1]] ==
        IF i = 0 THEN [off |-> 1, out |-> << >>] ELSE take_message(body, r[i - 1])
  IN  r

\* ok is parse's result; units after the last message are not looked at.
parse(body) ==
  IF take(body, 0, 1) = FAIL
    THEN [ok |-> FALSE, out |-> << >>]
    ELSE LET r == take_messages(body)[body[1]] IN [ok |-> r.off # FAIL, out |-> r.out]
=============================================================================
