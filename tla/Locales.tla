------------------------------- MODULE Locales -------------------------------
(***************************************************************************)
(* c_get_language_code and c_get_country_code of src/cpp/locales.c, by     *)
(* several tasks: each saves the locale of the process, sets the one that  *)
(* the environment names, reads its name and restores the first.           *)
(*                                                                         *)
(* A name is a sequence of characters; "" is the end of a C string. The    *)
(* tables are parameters with the rows that the instance needs. setlocale  *)
(* returns a pointer to storage of its own: what it points to is what was  *)
(* returned only until the locale is set again.                            *)
(***************************************************************************)
EXTENDS Integers, Sequences, SequencesExt

CONSTANTS
  Tasks,
  Original,  \* the locale the program runs with
  Locales,   \* the parts of the names that the environment may give
  iso_639,   \* rows [two, three, name]
  iso_3166   \* rows [two, name]

VARIABLES
  locale,  \* of the process
  env,     \* the parts of the locale the environment names
  pc,      \* pc[t]: where t is in a call
  asks,    \* asks[t]: "language" or "country"
  saved,   \* saved[t]: what Saved_Locale pointed to when it was returned
  lc_all,  \* lc_all[t]: the same of lc_all
  code     \* code[t]: the last code t got, or <<>>

vars == <<locale, env, pc, asks, saved, lc_all, code>>

-----------------------------------------------------------------------------
At(s, i) == IF i <= Len(s) THEN s[i] ELSE ""

\* The place of the first of the characters stops, from place i on, or last.
Stop(s, i, last, stops) ==
  LET found == {k \in i .. last - 1 : At(s, k) \in stops}
  IN  IF found = {} THEN last ELSE CHOOSE k \in found : \A j \in found : k <= j

End(s) == Len(s) + 1
Cut(s, i, j) == SubSeq(s, i, j - 1)

\* The letters that stand for all of them.
Lower == {"a", "b"}
Upper == {"A", "B"}

tolower(c) == CASE c = "A" -> "a" [] c = "B" -> "b" [] OTHER -> c

str_case_equals(s1, s2) ==
  Len(s1) = Len(s2) /\ \A k \in DOMAIN s1 : tolower(s1[k]) = tolower(s2[k])

\* The first row of a table that fits gives the code: the set of it, or {}.
iso_639_1_to_639_3(two) ==
  LET k == SelectInSeq(iso_639, LAMBDA row : row.two = two)
  IN  IF k = 0 THEN {} ELSE {iso_639[k].three}

language_name_to_639_3(name) ==
  LET k == SelectInSeq(iso_639, LAMBDA row : str_case_equals(name, row.name))
  IN  IF k = 0 THEN {} ELSE {iso_639[k].three}

country_name_to_3166(name) ==
  LET k == SelectInSeq(iso_3166, LAMBDA row : str_case_equals(name, row.name))
  IN  IF k = 0 THEN {} ELSE {iso_3166[k].two}

\* Some systems give the name twice, with a space between: the first ends it.
str_get_last_byte(s) ==
  LET first == Stop(s, 1, End(s), {" "})
      second == Stop(s, first + 1, End(s), {" "})
  IN  IF second < End(s) /\ Cut(s, 1, first) = Cut(s, first + 1, second)
      THEN first ELSE End(s)

\* Mutant: a modifier is taken for a part of the language.
Language_ToModifier(s) == Cut(s, 1, Stop(s, 1, End(s), {"_", "."}))

Language(s) == Cut(s, 1, Stop(s, 1, End(s), {"_", ".", "@"}))

Und == <<"u", "n", "d">>
ZZ == <<"Z", "Z">>
CodeOr(found, unknown) == IF found = {} THEN unknown ELSE CHOOSE c \in found : TRUE

c_get_language_code(s) ==
  LET language == Language(s)
  IN  CASE Len(language) < 2 -> Und
        [] Len(language) = 2 -> CodeOr(iso_639_1_to_639_3(language), Und)
        [] Len(language) = 3 -> language
        [] OTHER -> CodeOr(language_name_to_639_3(language), Und)

Country(s) ==
  LET last == str_get_last_byte(s)
      s1 == Stop(s, 1, last, {"_", ".", "@"})
  IN  IF At(s, s1) = "_" THEN Cut(s, s1 + 1, Stop(s, s1 + 1, last, {".", "@"})) ELSE <<>>

c_get_country_code(s) ==
  LET country == Country(s)
  IN  CASE Len(country) = 2 -> country
        [] Len(country) > 3 -> CodeOr(country_name_to_3166(country), ZZ)
        [] OTHER -> ZZ

(***************************************************************************)
(* What is assumed of the constants. A part of a name has none of the      *)
(* characters that end one. A language may be of several words, but does   *)
(* not begin with a word that is given twice; what is given twice has no   *)
(* spaces and a territory. Rows of a table for the same code or name       *)
(* (Australia has two) agree, and its codes are well-formed.               *)
(***************************************************************************)
Stops == {"_", ".", "@"}

NameAssumption ==
  \A p \in Locales :
    /\ p \in [language : Seq(STRING), territory : Seq(STRING), codeset : BOOLEAN,
              modifier : BOOLEAN, twice : BOOLEAN]
    /\ Stops \cap (Range(p.language) \cup Range(p.territory)) = {}
    /\ \A i, j \in DOMAIN p.language :
         p.language[i] = " " /\ p.language[j] = " " =>
           SubSeq(p.language, 1, i - 1) # SubSeq(p.language, i + 1, j - 1)
    /\ p.twice => p.territory # <<>> /\ " " \notin Range(p.language) \cup Range(p.territory)

TableAssumption ==
  /\ iso_639 \in Seq([two : Seq(STRING), three : Seq(STRING), name : Seq(STRING)])
  /\ iso_3166 \in Seq([two : Seq(STRING), name : Seq(STRING)])
  /\ \A r \in Range(iso_639) : Len(r.three) = 3 /\ Range(r.three) \subseteq Lower
  /\ \A r \in Range(iso_3166) : Len(r.two) = 2 /\ Range(r.two) \subseteq Upper
  /\ \A r, s \in Range(iso_639) :
       r.two = s.two \/ str_case_equals(r.name, s.name) => r.three = s.three
  /\ \A r, s \in Range(iso_3166) : str_case_equals(r.name, s.name) => r.two = s.two

-----------------------------------------------------------------------------
(***************************************************************************)
(* The name of a locale is language[_territory][.code-set][@modifier]      *)
(* (locales.c:732); some systems give it twice.                            *)
(***************************************************************************)
Rendered(p) ==
  LET once == p.language \o (IF p.territory = <<>> THEN <<>> ELSE <<"_">> \o p.territory)
                         \o (IF p.codeset THEN <<".", "a">> ELSE <<>>)
                         \o (IF p.modifier THEN <<"@", "b">> ELSE <<>>)
  IN  IF p.twice THEN once \o <<" ">> \o once \o <<" ">> ELSE once

Init ==
  /\ locale = Original
  /\ env \in Locales
  /\ pc = [t \in Tasks |-> "idle"]
  /\ asks = [t \in Tasks |-> "language"]
  /\ saved = [t \in Tasks |-> <<>>]
  /\ lc_all = [t \in Tasks |-> <<>>]
  /\ code = [t \in Tasks |-> <<>>]

Go(t, from, to) == pc[t] = from /\ pc' = [pc EXCEPT ![t] = to]

\* What a pointer to the name s points to by now: s, or the name of the locale
\* that was set in its place. Freed storage may hold any name; one that is no
\* locale's leaves the locale as it is, as that of the present locale does.
PointedTo(s) == {s, locale}

\* setlocale (LC_ALL, NULL)
SaveLocale(t) ==
  /\ Go(t, "idle", "set")
  /\ \E what \in {"language", "country"} : asks' = [asks EXCEPT ![t] = what]
  /\ saved' = [saved EXCEPT ![t] = locale]
  /\ UNCHANGED <<locale, env, lc_all, code>>

\* setlocale (LC_ALL, "")
SetEnvironmentLocale(t) ==
  /\ Go(t, "set", "get")
  /\ locale' = Rendered(env)
  /\ UNCHANGED <<env, asks, saved, lc_all, code>>

GetLocale(t) ==
  /\ Go(t, "get", "restore")
  /\ lc_all' = [lc_all EXCEPT ![t] = locale]
  /\ UNCHANGED <<locale, env, asks, saved, code>>

RestoreLocale(t) ==
  /\ Go(t, "restore", "idle")
  /\ \E name \in PointedTo(lc_all[t]) :
       code' = [code EXCEPT ![t] = IF asks[t] = "language" THEN c_get_language_code(name)
                                   ELSE c_get_country_code(name)]
  /\ locale' \in PointedTo(saved[t])
  /\ UNCHANGED <<env, asks, saved, lc_all>>

Next ==
  \E t \in Tasks :
    SaveLocale(t) \/ SetEnvironmentLocale(t) \/ GetLocale(t) \/ RestoreLocale(t)

Spec == Init /\ [][Next]_vars

-----------------------------------------------------------------------------
(***************************************************************************)
(* "Restore the original locale settings" (locales.c:800 and 878): when no *)
(* call is under way the program has its own locale. One task breaks it:   *)
(* the name it restores is read after the locale was set.                  *)
(***************************************************************************)
LocaleRestored == (\A t \in Tasks : pc[t] = "idle") => locale = Original

(***************************************************************************)
(* The codes are those of the parts of the name of the environment's       *)
(* locale, and unknown ones where there is none: "und" and "ZZ". With one  *)
(* task this is what a call gives. A language of three or a country of two *)
(* characters is its own code; what it should be when they are not the     *)
(* letters of a code is left to CodesWellFormed.                           *)
(***************************************************************************)
LanguageOf(p) ==
  LET n == Len(p.language)
      rows == {row \in Range(iso_639) : \/ n = 2 /\ row.two = p.language
                                        \/ n > 3 /\ str_case_equals(row.name, p.language)}
  IN  IF n = 3 THEN p.language ELSE CodeOr({row.three : row \in rows}, Und)

CountryOf(p) ==
  LET n == Len(p.territory)
      rows == {row \in Range(iso_3166) : n > 3 /\ str_case_equals(row.name, p.territory)}
  IN  IF n = 2 THEN p.territory ELSE CodeOr({row.two : row \in rows}, ZZ)

IllFormed(p, what) ==
  \/ what = "language" /\ Len(p.language) = 3 /\ ~(Range(p.language) \subseteq Lower)
  \/ what = "country" /\ Len(p.territory) = 2 /\ ~(Range(p.territory) \subseteq Upper)

CodesOfTheParts ==
  \A t \in Tasks : pc[t] = "idle" /\ code[t] # <<>> /\ ~IllFormed(env, asks[t]) =>
    code[t] = IF asks[t] = "language" THEN LanguageOf(env) ELSE CountryOf(env)

(***************************************************************************)
(* "the Alpha-3 encoding of the language code (3 lowercase letters). That  *)
(* should be "und" if the language is unknown" (locales.c:715) and "the    *)
(* Alpha-2 encoding of the country code (2 uppercase letters). That should *)
(* be "ZZ" if the country is unknown" (locales.c:807). A part of three or  *)
(* two characters is passed through, whatever they are.                    *)
(***************************************************************************)
CodesWellFormed ==
  \A t \in Tasks : pc[t] = "idle" /\ code[t] # <<>> =>
    IF asks[t] = "language"
    THEN code[t] = Und \/ (Len(code[t]) = 3 /\ Range(code[t]) \subseteq Lower)
    ELSE code[t] = ZZ \/ (Len(code[t]) = 2 /\ Range(code[t]) \subseteq Upper)
=============================================================================
