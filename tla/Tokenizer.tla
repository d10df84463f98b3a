------------------------------ MODULE Tokenizer ------------------------------
(***************************************************************************)
(* The tokenizer (tokenize.cpp): the words of a script made the tokens the  *)
(* parser reads. A word is what the scan of characters takes in one go: a   *)
(* name, a number, an operator, a bracket, an end of line "\n". The state   *)
(* is t: the words left in t.in, the tokens in t.tk, the names #define has  *)
(* given so far with the words they stand for in t.defines.                 *)
(***************************************************************************)
EXTENDS AsmLines, TLC

CONSTANTS NumberWords,             \* the words that are numbers, with their type and value
          MaxWords                 \* of a script, its definitions written out

\* keyword_array, the types apart.
TypeNames == "none" :> "none" @@ "uint8_t" :> "uint8" @@ "uint16_t" :> "uint16"
             @@ "uint32_t" :> "uint32" @@ "int" :> "int" @@ "s_int" :> "s_int"
             @@ "float" :> "float" @@ "void" :> "void" @@ "CRGB" :> "CRGB"
             @@ "CRGBW" :> "CRGBW" @@ "char" :> "char" @@ "Args" :> "Args"
             @@ "bool" :> "bool" @@ "ffloat" :> "ffloat"
Keywords == {"external", "for", "if", "then", "else", "while", "return", "import", "from",
             "__ASM__", "define", "safe_mode", "_header_", "_content_", "and", "or",
             "continue", "break", "fabs", "abs", "save_reg", "save_reg_abs", "struct",
             "override", "json", "as", "switch", "case", "default"}
\* The words that are not names, numbers or keywords, by their first character.
Comparing == {"=", "==", "<", "<=", "<<", ">", ">=", ">>", "!", "!="}
Adding == {"+", "++", "+=", "-", "--", "-="}
Binding == {";", "&", "&&", "#"}
Bracketing == {"(", ")", "%", "{", "}", "[", "]"}
Choosing == {"?", ".", "^", ":", "*", "*=", "||", ",", "/", "/="}
Punctuation == UNION {Comparing, Adding, Binding, Bracketing, Choosing}
SpeltOtherwise == "|" :> "or" @@ "->" :> "." @@ "][" :> ","

Token(t, word, vt, num) == [t |-> t, word |-> word, vt |-> vt, num |-> num]
Plain(word) == Token(word, word, "eof", 0)
PushToken(t, token) == [t EXCEPT !.tk = Append(@, token)]
Drop(t, n) == [t EXCEPT !.in = SubSeq(@, n + 1, Len(@))]
LastIs(t, kinds) == t.tk # <<>> /\ Last(t.tk).t \in kinds

\* The words up to the end of the line.
LineLength(words) ==
  IF \A i \in DOMAIN words : words[i] # "\n" THEN Len(words)
  ELSE (CHOOSE i \in DOMAIN words : words[i] = "\n" /\ \A j \in 1..(i - 1) : words[j] # "\n") - 1

\* getDefine(): the first definition of a name is the one that counts.
getDefine(t, name) == SelectSeq(t.defines, LAMBDA d : d.name = name)

(***************************************************************************)
(* #define: the name after it, and the rest of the line whatever it holds.  *)
(***************************************************************************)
Define(t) ==
  LET n == LineLength(t.in)
      definition == [name |-> t.in[1], content |-> SubSeq(t.in, 2, n)]
  IN  [Drop(t, n + 1) EXCEPT !.defines = Append(@, definition),
                             !.tk = SubSeq(@, 1, Len(@) - 1)]

\* The # goes, the keyword waits for its name; without a # it is unknown.
DefineKeyword(t) ==
  LET word == Drop(t, 1)
  IN  IF LastIs(t, {"#"}) THEN [word EXCEPT !.tk[Len(t.tk)] = Plain("define")]
      ELSE PushToken(word, Plain("unknown"))

\* A name is its definition's words, which are read in its place.
ReadName(t) ==
  LET name == Head(t.in)
      defined == getDefine(t, name)
  IN  CASE LastIs(t, {"define"}) -> Define(t)
        [] ~LastIs(t, {"define"}) /\ defined # <<>> ->
             [t EXCEPT !.in = Head(defined).content \o Tail(@)]
        [] OTHER -> PushToken(Drop(t, 1), Token("id", name, "eof", 0))

\* A minus that no operand precedes is the number's own.
BeforeSign == {",", "=", "==", "<=", ">", ">=", "!=", "*=", "+=", "("}
transNumber(t) ==
  LET word == Head(t.in)
      n == Len(t.tk)
      negative == n > 1 /\ LastIs(t, {"-"}) /\ t.tk[n - 1].t \in BeforeSign
      value == NumberWords[word]
      number(sign) == Token("number", word, value.vt, sign * value.num)
  IN  IF negative THEN [Drop(t, 1) EXCEPT !.tk[n] = number(-1)]
      ELSE PushToken(Drop(t, 1), number(1))

SkipComment(t) ==
  LET n == Len(t.in)
      closing == {i \in 2..n : t.in[i] = "*/"}
      end == CASE Head(t.in) = "//" -> LineLength(t.in) + 1
               [] closing = {} -> n
               [] OTHER -> CHOOSE i \in closing : \A j \in closing : i <= j
  IN  Drop(t, end)

\* One turn of tokenizer()'s loop. a][b is a,b.
ReadToken(t) ==
  LET word == Head(t.in)
      rest == Drop(t, 1)
  IN  CASE t.in = <<>> -> t
        [] word = "\n" -> rest
        [] word \in {"//", "/*"} -> SkipComment(t)
        [] word \in DOMAIN NumberWords -> transNumber(t)
        [] word = "define" -> DefineKeyword(t)
        [] word \in DOMAIN TypeNames -> PushToken(rest, Token("type", word, TypeNames[word], 0))
        [] word \in DOMAIN SpeltOtherwise -> PushToken(rest, Plain(SpeltOtherwise[word]))
        [] word \in Keywords \cup Punctuation -> PushToken(rest, Plain(word))
        [] OTHER -> ReadName(t)

\* Words are left over only when a definition goes on for ever.
tokenizer(words) ==
  LET start == [in |-> words, tk |-> <<>>, defines |-> <<>>]
  IN  Walk(LAMBDA t, k : ReadToken(t), start, 1, MaxWords)
=============================================================================
