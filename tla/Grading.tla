-------------------------------- MODULE Grading --------------------------------
(***************************************************************************)
(* What is made of a text a player types: round1-grading.ts for an answer  *)
(* with its variants, round4-grading.ts for a board of answers, and the    *)
(* face-off's use of it in room.ts.                                        *)
(*                                                                         *)
(* The classes of characters are small: letters, capitals, the blank, "&"  *)
(* and two punctuation marks.  An accented letter folds like a capital,    *)
(* and every other mark like these two.                                    *)
(***************************************************************************)
EXTENDS Naturals, SequencesExt

Blank == " "
Marks == {"-", "'"}
Articles == {<<"t", "h", "e">>, <<"a">>, <<"a", "n">>}

\* The letter another one is folded to.
Plain == [A |-> "a", E |-> "e", F |-> "f", H |-> "h", N |-> "n", O |-> "o", T |-> "t"]

\* A text by its characters.
Chars(text) == [i \in 1..Len(text) |-> SubSeq(text, i, i)]

Folded(c) ==
    CASE c \in DOMAIN Plain -> <<Plain[c]>>
      [] c = "&"            -> <<Blank, "a", "n", "d", Blank>>
      [] OTHER              -> <<c>>

\* An article goes only from the very start, a blank before it keeps it.
WithoutArticle(cs) ==
    IF \E w \in Articles : IsPrefix(Append(w, Blank), cs)
    THEN Tail(SubSeq(cs, SelectInSeq(cs, LAMBDA c : c = Blank), Len(cs)))
    ELSE cs

\* The blanks run together, and none is left at either end.
Squeezed(cs) ==
    LET kept == FoldLeft(LAMBDA out, c :
                    IF c # Blank THEN Append(out, c)
                    ELSE IF out = <<>> \/ Last(out) = Blank THEN out
                    ELSE Append(out, Blank), <<>>, cs)
    IN  IF kept # <<>> /\ Last(kept) = Blank THEN Front(kept) ELSE kept

\* normalizeAnswer: marks become blanks once the article is gone.
NormalizeAnswer(raw) ==
    LET folded == FlattenSeq([i \in DOMAIN Chars(raw) |-> Folded(Chars(raw)[i])])
        bare   == WithoutArticle(folded)
    IN  Squeezed([i \in DOMAIN bare |-> IF bare[i] \in Marks THEN Blank ELSE bare[i]])

\* acceptedForms and acceptedFormsOf: the canonical text and its variants.
AcceptedForms(answer) == {NormalizeAnswer(t) : t \in answer} \ {<<>>}

-----------------------------------------------------------------------------
(* Distance. *)

\* The cheapest way to the first j letters of b from the first i of a, but for
\* the transposition, from the cell to the left and the row above.
Cheapest(a, b, i, j, row, above) ==
    Min({row[j] + 1, above[j + 1] + 1, above[j] + (IF a[i] = b[j] THEN 0 ELSE 1)})

\* One row of the matrix: position j + 1 is the distance to b's first j letters.
NextRow(a, b, i, above, twoAbove) ==
    FoldLeft(LAMBDA row, j :
                 Append(row, LET plain == Cheapest(a, b, i, j, row, above) IN
                     IF i > 1 /\ j > 1 /\ a[i] = b[j - 1] /\ a[i - 1] = b[j]
                     THEN Min({plain, twoAbove[j - 1] + 1})
                     ELSE plain),
             <<i>>, [j \in 1..Len(b) |-> j])

\* The rows one after the other; a row wholly past max ends it.
LastCell(a, b, max) ==
    LET step(rows, i) ==
            IF rows.past THEN rows ELSE
            LET row == NextRow(a, b, i, rows.last, rows.before) IN
            [last |-> row, before |-> rows.last, past |-> \A j \in DOMAIN row : row[j] > max]
        rows == FoldLeft(step, [last |-> [j \in 1..Len(b) + 1 |-> j - 1],
                                before |-> <<>>, past |-> FALSE],
                         [i \in 1..Len(a) |-> i])
    IN  IF rows.past THEN max + 1 ELSE rows.last[Len(b) + 1]

DamerauLevenshtein(a, b, max) ==
    CASE a = b -> 0
      [] a = <<>> -> Len(b)
      [] b = <<>> /\ a # <<>> -> Len(a)
      [] OTHER -> IF Len(a) > Len(b) + max \/ Len(b) > Len(a) + max
                  THEN max + 1 ELSE LastCell(a, b, max)

FuzzyToleranceFor(length) == IF length <= 4 THEN 0 ELSE IF length <= 11 THEN 1 ELSE 2

Within(guess, form) ==
    LET tolerance == FuzzyToleranceFor(Len(form)) IN
    DamerauLevenshtein(guess, form, tolerance) <= tolerance

\* isTypoOfForm: a short form forgives nothing.
IsTypoOfForm(guess, form) == FuzzyToleranceFor(Len(form)) > 0 /\ Within(guess, form)

\* split(' ') of a normalised text.
WordsOf(cs) ==
    FoldLeft(LAMBDA ws, c : IF c = Blank THEN Append(ws, <<>>)
                            ELSE Append(Front(ws), Append(Last(ws), c)), <<(<<>>)>>, cs)

\* isTypoOf: as a whole, or word by word.
IsTypoOf(guess, form) ==
    \/ IsTypoOfForm(guess, form)
    \/ LET got == WordsOf(guess)  want == WordsOf(form) IN
       /\ Len(got) >= 2
       /\ Len(got) = Len(want)
       /\ \A i \in DOMAIN want : Within(got[i], want[i])

-----------------------------------------------------------------------------
(* Rulings. *)

\* gradeDeterministic: right, wrong as a blank is, or not for the text to say.
GradeDeterministic(text, answer) ==
    LET guess == NormalizeAnswer(text)  forms == AcceptedForms(answer) IN
    CASE guess = <<>> -> "INCORRECT"
      [] guess \in forms -> "CORRECT"
      [] OTHER -> IF \E form \in forms : IsTypoOf(guess, form) THEN "CORRECT" ELSE "unruled"

\* matchRound4Answer on the answers still there, by rank; 0 where none or more
\* than one fits, an exact fit before a typo.
MatchRound4Answer(text, forms, ranks) ==
    LET guess == NormalizeAnswer(text)
        exact == {r \in ranks : guess \in AcceptedForms(forms[r])}
        typo  == {r \in ranks : \E f \in AcceptedForms(forms[r]) : IsTypoOfForm(guess, f)}
        fits  == IF exact # {} THEN exact ELSE typo
    IN  IF guess # <<>> /\ \E r \in ranks : fits = {r} THEN Min(fits) ELSE 0

\* The top answer, exactly or by a typo.
MatchesTopAnswer(text, forms, ranks) ==
    LET guess == NormalizeAnswer(text) IN
    /\ 1 \in ranks
    /\ guess # <<>>
    /\ \E f \in AcceptedForms(forms[1]) : guess = f \/ IsTypoOfForm(guess, f)

\* #matchRound4FaceoffRank: a typo of the top answer goes before an exact match
\* of another.
FaceoffRank(text, forms, ranks) ==
    IF MatchesTopAnswer(text, forms, ranks) THEN 1 ELSE MatchRound4Answer(text, forms, ranks)

-----------------------------------------------------------------------------
(* What a distance has to be. *)

\* What a finger does: a letter more, one less, another one, or two swapped.
OneSlip(w, letters) ==
    {InsertAt(w, i, c) : i \in 1..Len(w) + 1, c \in letters}
    \cup {RemoveAt(w, i) : i \in 1..Len(w)}
    \cup {[w EXCEPT ![i] = c] : i \in 1..Len(w), c \in letters}
    \cup {[w EXCEPT ![i] = w[i + 1], ![i + 1] = w[i]] : i \in 1..Len(w) - 1}

\* Bounds: words of up to five letters, over two of them.
Letters == {"a", "b"}
Words   == UNION {[1..k -> Letters] : k \in 0..5}

\* One mistake is counted where one is all there is, two only where two slips
\* will do; and neither giving up on a row wholly past the tolerance nor the
\* order of the two words turns a ruling (the comment on damerauLevenshtein).
SlipsAreCounted ==
    \A w \in Words :
        LET once  == {w} \cup OneSlip(w, Letters)
            twice == UNION {OneSlip(v, Letters) : v \in once}
        IN  \A v \in Words :
                LET d == DamerauLevenshtein(v, w, 10) IN
                /\ (d <= 1) = (v \in once)
                /\ d <= 2 => v \in twice
                /\ d = DamerauLevenshtein(w, v, 10)
                /\ \A max \in 0..2 : (DamerauLevenshtein(v, w, max) <= max) = (d <= max)

=============================================================================
