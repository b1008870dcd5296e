------------------------------ MODULE DomainMask ------------------------------
(***************************************************************************)
(* The domains that are disabled at compile time: isMasked of hisysevent.h *)
(* looks for the domain of a write among the names of the macro            *)
(* DOMAIN_MASKS, which are separated by '|'.  Names are sequences of       *)
(* letters; positions count from 0, as in std::string_view.                *)
(***************************************************************************)
EXTENDS Integers, Sequences, FiniteSetsExt

CONSTANTS
  Letters,         (* characters of a name                                  *)
  Bar,             (* the character '|'                                     *)
  MaxName,         (* length of a domain name                               *)
  MaxMasks         (* number of names in DOMAIN_MASKS                       *)

VARIABLES
  domain,          (* the domain of a write                                 *)
  names,           (* the names somebody wants to mask                      *)
  masked           (* value of isMasked<domain>, "?" before compilation     *)

Names == UNION {[1..n -> Letters] : n \in 1..MaxName}

npos == -1

(* The macro DOMAIN_MASKS: "AAFWK|APPEXECFWK|ACCOUNT".                     *)
RECURSIVE Joined(_)
Joined(list) ==
  CASE list = <<>> -> <<>>
    [] Len(list) = 1 -> list[1]
    [] OTHER -> list[1] \o <<Bar>> \o Joined(Tail(list))

(* masks.find('|', pos)                                                    *)
Find(masks, pos) ==
  LET bars == {i \in pos..Len(masks) - 1 : masks[i + 1] = Bar}
  IN  IF bars = {} THEN npos ELSE Min(bars)

(* masks.substr(pos, count): count is a size_t, so one below zero is       *)
(* larger than what is left.                                               *)
Substr(masks, pos, count) ==
  SubSeq(masks, pos + 1, IF count < 0 \/ pos + count > Len(masks) THEN Len(masks) ELSE pos + count)

(* IsMaskedImpl<str, masks, pos>::value                                    *)
RECURSIVE IsMaskedImpl(_, _, _)
IsMaskedImpl(str, masks, pos) ==
  IF pos = npos THEN FALSE
  ELSE LET newpos == Find(masks, pos)
       IN  \/ IsMaskedImpl(str, masks, IF newpos # npos THEN pos + 1 ELSE newpos)
           \/ /\ pos # newpos
              /\ pos # Len(masks)
              /\ Substr(masks, pos, IF newpos # npos THEN newpos - pos ELSE Len(str) - pos) = str

(* A program is compiled with these masks.                                 *)
Compile ==
  /\ masked = "?"
  /\ masked' = IF IsMaskedImpl(domain, Joined(names), 0) THEN "yes" ELSE "no"
  /\ UNCHANGED <<domain, names>>

Init ==
  /\ domain \in Names
  /\ names \in UNION {[1..n -> Names] : n \in 0..MaxMasks}
  /\ masked = "?"

Spec == Init /\ [][Compile]_<<domain, names, masked>>

(***************************************************************************)
(* A domain is masked exactly if it is one of the names in DOMAIN_MASKS:   *)
(* "split domain masks by '|', then compare with str".                     *)
(***************************************************************************)
MaskedExactly ==
  masked # "?" => (masked = "yes") = (\E i \in 1..Len(names) : names[i] = domain)
=============================================================================
