---------------------------- MODULE OpenVpnConfig ----------------------------
(***************************************************************************)
(* buildOpenVpnConfig's filter: the downloaded profile is read line by      *)
(* line, what the service decides itself is dropped, the trust material is  *)
(* kept, and the service's own directives follow.  A line is what its       *)
(* trimmed text is:                                                         *)
(*   open, close   a tag, in the lower case of the code's own ("exact") or   *)
(*                 in another case ("cased")                                *)
(*   word          a directive, bare ("plain"), with leading dashes          *)
(*                 ("dashed"), quoted ("quoted") or the service's ("own")     *)
(*   comment       a comment or nothing                                     *)
(***************************************************************************)
EXTENDS Naturals, Sequences, SequencesExt

CONSTANTS
    Overridden,     \* the directives a profile may not set
    Trust,          \* allowedInlineBlocks
    Own             \* the directives the service adds, in their order

Line(is, name, form) == [is |-> is, name |-> name, form |-> form]

\* The lines a profile may hold: openingTag has no tag without a name.
ProfileLines ==
    [is : {"open", "close"}, name : STRING \ {""}, form : {"exact", "cased"}]
        \cup [is : {"word"}, name : STRING, form : {"plain", "dashed", "quoted"}]
        \cup [is : {"comment"}, name : STRING, form : {"plain"}]

ASSUME OpenVpnConfigAssumption == Own \in Seq(STRING)

NoBlock == ""
Start == [output |-> <<>>, inline |-> NoBlock, skipped |-> NoBlock, refused |-> FALSE]

Keep(r, l) == [r EXCEPT !.output = Append(@, l)]

\* Only the closing tag of a trust block is compared without case.
ClosesSkipped(l, block) == l.is = "close" /\ l.name = block /\ l.form = "exact"
ClosesInline(l, block) == l.is = "close" /\ l.name = block

\* Mutant: quoted names and stray closing tags go by
AnyWord(l) == l.is \in {"word", "close"}

\* directivePattern, once leading dashes are removed
IsDirective(l) == l.is = "word" /\ l.form # "quoted"

\* Mutant: the name is compared with its dashes
ByWrittenName(l) == l.name \in Overridden /\ l.form # "dashed"

IsOverridden(l) == l.name \in Overridden

\* Mutant: an opening tag inside a skipped block is looked at
OpensInSkipped(r, l) ==
    IF ClosesSkipped(l, r.skipped) \/ (l.is = "open" /\ l.name \in Trust)
    THEN [r EXCEPT !.skipped = NoBlock] ELSE r

SkipLine(r, l) == IF ClosesSkipped(l, r.skipped) THEN [r EXCEPT !.skipped = NoBlock] ELSE r

InlineLine(r, l) ==
    LET kept == Keep(r, l)
    IN  IF ClosesInline(l, r.inline) THEN [kept EXCEPT !.inline = NoBlock] ELSE kept

OuterLine(r, l) ==
    CASE l.is = "open" /\ l.name \in Trust -> [Keep(r, l) EXCEPT !.inline = l.name]
      [] l.is = "open" /\ l.name \notin Trust -> [r EXCEPT !.skipped = l.name]
      [] l.is = "comment" -> r
      [] l.is \in {"word", "close"} ->
            IF ~IsDirective(l) THEN [r EXCEPT !.refused = TRUE]
            ELSE IF IsOverridden(l) THEN r ELSE Keep(r, l)

ReadLine(r, l) ==
    CASE r.refused -> r
      [] ~r.refused /\ r.skipped # NoBlock -> SkipLine(r, l)
      [] ~r.refused /\ r.skipped = NoBlock /\ r.inline # NoBlock -> InlineLine(r, l)
      [] OTHER -> OuterLine(r, l)

Reading(profile) ==
    LET r[n \in 0..Len(profile)] == IF n = 0 THEN Start ELSE ReadLine(r[n - 1], profile[n])
    IN  r
ReadProfile(profile) == Reading(profile)[Len(profile)]

Accepted(profile) ==
    LET r == ReadProfile(profile)
    IN  ~r.refused /\ r.inline = NoBlock /\ r.skipped = NoBlock
OwnLines == [i \in 1..Len(Own) |-> Line("word", Own[i], "own")]
Output(profile) == ReadProfile(profile).output \o OwnLines

-----------------------------------------------------------------------------
(* OpenVPN's reader: a block runs to the closing tag written as its opening
   one, quotes and leading dashes are part of no name, a stray closing tag
   is no option. *)

Item(is, name, form, text) == [is |-> is, name |-> name, form |-> form, text |-> text]
NoTag == Line("none", "none", "none")

OpenVpnLine(r, l) ==
    IF r.tag # NoTag THEN
        IF l.is = "close" /\ l.name = r.tag.name /\ l.form = r.tag.form
        THEN [items |-> Append(r.items, Item("block", l.name, l.form, r.text)),
              tag |-> NoTag, text |-> <<>>]
        ELSE [r EXCEPT !.text = Append(@, l)]
    ELSE CASE l.is = "open" -> [r EXCEPT !.tag = l]
           [] l.is = "comment" -> r
           [] OTHER -> [r EXCEPT !.items = Append(@, Item(l.is, l.name, l.form, <<>>))]

Unread == [items |-> <<>>, tag |-> NoTag, text |-> <<>>]
OpenVpnReading(lines) ==
    LET r[n \in 0..Len(lines)] == IF n = 0 THEN Unread ELSE OpenVpnLine(r[n - 1], lines[n])
    IN  r
OpenVpnReads(lines) == OpenVpnReading(lines)[Len(lines)]

\* The profile writes its tags in lower case, as Nord's do.
LowerCaseTags(profile) == \A i \in DOMAIN profile : profile[i].form # "cased"

\* The elements of s at the positions of K, in their order
Selecting(s, K) ==
    LET kept[n \in 0..Len(s)] ==
            IF n = 0 THEN <<>>
            ELSE IF n \in K THEN Append(kept[n - 1], s[n]) ELSE kept[n - 1]
    IN  kept
Selected(s, K) == Selecting(s, K)[Len(s)]

\* What of the profile is to stay in effect
Stays(item) == \/ item.is = "block" /\ item.name \in Trust
               \/ item.is = "word" /\ item.name \notin Overridden
IsTheProfiles(item) == item.form # "own"
Staying(items) == Selected(items, {i \in DOMAIN items : Stays(items[i])})
TheProfiles(items) == Selected(items, {i \in DOMAIN items : IsTheProfiles(items[i])})

\* OpenVPN reads in the output the trust blocks and the harmless directives
\* of the profile, whole and in their order, and of the profile nothing else.
FilteredAsRead(profile, lines) ==
    TheProfiles(OpenVpnReads(lines).items) = Staying(OpenVpnReads(profile).items)

\* Every directive of the service is read, and no later one undoes it.
OwnInEffect(lines) ==
    LET items == OpenVpnReads(lines).items
    IN  \A n \in ToSet(Own) : \E i \in DOMAIN items :
            /\ items[i].name = n /\ items[i].form = "own"
            /\ \A j \in i..Len(items) : items[j].name = n => items[j].form = "own"
=============================================================================
