--------------------------- MODULE LensValidation ---------------------------
(***************************************************************************)
(* The four validators of a lens: one in each sidecar, before it writes,   *)
(* and one in the host, before it shows what arrived (src-tauri/src/       *)
(* lens.rs, sidecar-rust/src/lens.rs, lens.go, validate_lens in agent.py). *)
(*                                                                         *)
(* A string is a sequence of kinds of characters, told apart by what the   *)
(* validators look at: whether an id may have them, how many bytes they    *)
(* take, and who takes them for white space. Of the HTML they look at the  *)
(* size and at two substrings, after a conversion to lower case that       *)
(* treats the letters in them alike in all three languages.                *)
(***************************************************************************)
EXTENDS Integers, Sequences, FiniteSets

CONSTANTS
  MaxId, MaxName, MaxIcon, \* in bytes: 64, 80 and 32 in the code
  MaxHtml                  \* in bytes: 512 KiB in the code

ASSUME ValidationAssumption == {MaxId, MaxName, MaxIcon, MaxHtml} \subseteq Nat \ {0}

Characters ==
  {"lower",     \* a-z and 0-9
   "hyphen",
   "other",     \* ASCII that shows
   "wide",      \* two bytes in UTF-8
   "space",     \* ASCII white space
   "widespace", \* two bytes, Unicode's White_Space, as U+00A0
   "separator"} \* U+001C to U+001F

Html == [bytes : Nat, opens : BOOLEAN, closes : BOOLEAN]

Lens == [id : Seq(Characters), name : Seq(Characters), icon : Seq(Characters),
         html : Html]

IdAlphabet == {"lower", "hyphen"}

(* What Rust's trim and Go's TrimSpace remove. *)
WhiteSpace == {"space", "widespace"}

(* What Python's strip removes. *)
PythonWhiteSpace == WhiteSpace \cup {"separator"}

Bytes(s) == Len(s) + Cardinality({i \in DOMAIN s : s[i] \in {"wide", "widespace"}})

IdIsGood(id) ==
  /\ id # <<>> /\ Bytes(id) <= MaxId
  /\ \A i \in DOMAIN id : id[i] \in IdAlphabet
  /\ id[1] # "hyphen" /\ id[Len(id)] # "hyphen"

(* A text is good if trimming leaves something of it. *)
TextIsGood(s, max, white) ==
  (\E i \in DOMAIN s : s[i] \notin white) /\ Bytes(s) <= max

(* The first complaint there is, in the order of the code, or "ok". *)
Verdict(lens, white) ==
  IF ~IdIsGood(lens.id) THEN "id"
  ELSE IF ~TextIsGood(lens.name, MaxName, white) THEN "name"
  ELSE IF ~TextIsGood(lens.icon, MaxIcon, white) THEN "icon"
  ELSE IF lens.html.bytes > MaxHtml THEN "size"
  ELSE IF ~(lens.html.opens /\ lens.html.closes) THEN "document"
  ELSE "ok"

HostValidate(lens) == Verdict(lens, WhiteSpace)

RustValidate(lens) == Verdict(lens, WhiteSpace)

\* Mutant of GoValidate: len([]rune(name)) for its bytes.
GoValidateRunes(lens) ==
  Verdict([lens EXCEPT !.name =
             [i \in DOMAIN @ |-> IF @[i] = "wide" THEN "other" ELSE @[i]]], WhiteSpace)

GoValidate(lens) == Verdict(lens, WhiteSpace)

PyValidate(lens) == Verdict(lens, PythonWhiteSpace)
=============================================================================
