---------------------------- MODULE WorkspaceNames ----------------------------
(***************************************************************************)
(* From the name of a workspace to its slug: the pydantic validator of     *)
(* workspace_name, slugify and validate_workspace_slug.  A name is a       *)
(* sequence of characters; of the characters only these classes matter.    *)
(***************************************************************************)
EXTENDS Naturals, SequencesExt

CONSTANTS Lower, Digit, Other,         \* letters, digits, characters dropped
          Upper,                       \* a capital for every letter in it
          RESERVED_WORKSPACE_NAMES, RESERVED_WORKSPACE_SLUGS,
          MaxNameLength                \* bound on the names checked below

Alnum == Lower \cup Digit
Whitespace == {" "}
Separator == Whitespace \cup {"_"}
Character == Alnum \cup DOMAIN Upper \cup Separator \cup {"-"} \cup Other

ASSUME CharacterAssumption ==
    /\ \A c \in DOMAIN Upper : Upper[c] \in Lower
    /\ Other \cap (Alnum \cup DOMAIN Upper \cup Separator \cup {"-"}) = {}
    /\ MaxNameLength \in Nat

lower(s) == [i \in DOMAIN s |-> IF s[i] \in DOMAIN Upper THEN Upper[s[i]] ELSE s[i]]

\* Every run of characters of S becomes one c.
Collapse(s, S, c) ==
    LET first == {i \in DOMAIN s : s[i] \in S => (i = 1 \/ s[i - 1] \notin S)}
        kept == SetToSortSeq(first, <)
    IN  [k \in DOMAIN kept |-> IF s[kept[k]] \in S THEN c ELSE s[kept[k]]]

Strip(s, S) ==
    LET inner == {i \in DOMAIN s : s[i] \notin S}
    IN  IF inner = {} THEN <<>> ELSE SubSeq(s, Min(inner), Max(inner))

\* validate_workspace_name: the cleaned name, and whether it is accepted
\* (the limit of 255 characters is beyond the names checked here)
Cleaned(name) == Collapse(Strip(name, Whitespace), Whitespace, " ")

validate_workspace_name(name) ==
    /\ Len(Cleaned(name)) >= 3
    /\ lower(Cleaned(name)) \notin RESERVED_WORKSPACE_NAMES

slugify(value) ==
    LET stripped == lower(Strip(value, Whitespace))
        hyphenated == Collapse(stripped, Separator, "-")
        alphanumeric == SelectSeq(hyphenated, LAMBDA c : c \in Alnum \cup {"-"})
    IN  Strip(Collapse(alphanumeric, {"-"}, "-"), {"-"})

validate_workspace_slug(slug) ==
    slug # <<>> /\ slug \notin RESERVED_WORKSPACE_SLUGS

-----------------------------------------------------------------------------

(* What a slug is, said without the steps that make it: the letters and    *)
(* digits of the name in their order, in lower case, with one hyphen       *)
(* between two of them exactly when a space, an underscore or a hyphen     *)
(* stands between them in the name.                                        *)
IsSlugOf(slug, name) ==
    LET keep(s) == SetToSortSeq({i \in DOMAIN s : lower(s)[i] \in Alnum}, <)
        n == keep(name)
        m == keep(slug)
    IN  /\ [k \in DOMAIN m |-> slug[m[k]]] = [k \in DOMAIN n |-> lower(name)[n[k]]]
        /\ slug # <<>> => m[1] = 1 /\ m[Len(m)] = Len(slug)
        /\ \A k \in 1..Len(n) - 1 :
              m[k + 1] - m[k] =
                 IF \E i \in n[k]..n[k + 1] : name[i] \in Separator \cup {"-"}
                 THEN 2 ELSE 1
        /\ \A i \in DOMAIN slug : slug[i] \in Alnum \cup {"-"}

(* slugify makes that slug of every name, and nothing else of a slug.      *)
ASSUME SlugifyIsRight ==
    \A name \in SeqOf(Character, MaxNameLength) :
        IsSlugOf(slugify(name), name) /\ slugify(slugify(name)) = slugify(name)

(* Cleaning a name, as validation does first, does not change its slug.    *)
ASSUME CleaningKeepsSlug ==
    \A name \in SeqOf(Character, MaxNameLength) :
        slugify(Cleaned(name)) = slugify(name)
=============================================================================
