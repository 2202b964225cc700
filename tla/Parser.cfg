CONSTANTS
  Alpha = {"a", "b", "init", "print", "class", "fun", "var", "for", "if", "else", "while", "return", "and", "or", "this", "super", "true", "false", "nil"}
  Keyword = {"print", "class", "fun", "var", "for", "if", "else", "while", "return", "and", "or", "this", "super", "true", "false", "nil"}
  MaxArgs = 2
  Profile <- MCProfile
SPECIFICATION Spec
INVARIANTS ParsesAsGrammar NoCascade TokensCoverText
CHECK_DEADLOCK FALSE
