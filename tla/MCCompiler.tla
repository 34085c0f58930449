----------------------------- MODULE MCCompiler -----------------------------
EXTENDS Compiler, TLC

CONSTANTS x, y

Symmetry == Permutations(Name)

\* A language that has every construct has too many programs of a length that
\* shows something: each of these is a language of its own.
MCSyntax ==
  { [max |-> 4, of |-> {"expression", "assign", "while", "break", "continue", "if"}],
    [max |-> 5, of |-> {"expression", "for", "break", "continue"}],
    [max |-> 4, of |-> {"expression", "assign", "literal", "while", "for", "break", "continue"}],
    [max |-> 5, of |-> {"expression", "read", "literal", "toplevel", "parameter"}],
    [max |-> 4, of |-> {"expression", "read", "literal", "toplevel", "named", "parameter", "default"}],
    [max |-> 4, of |-> {"expression", "assign", "read", "named", "if"}],
    [max |-> 4, of |-> {"expression", "toplevel", "assign", "literal", "read", "call"}],
    [max |-> 4, of |-> {"expression", "assign", "compound", "if", "elif", "return"}],
    [max |-> 4, of |-> {"expression", "or", "conditional", "ifexpr"}],
    [max |-> 3, of |-> {"expression", "binary", "or", "conditional", "ifexpr"}],
    [max |-> 4, of |-> {"expression", "assign", "binary", "or", "if"}],
    [max |-> 5, of |-> {"class", "method", "constructor", "this", "super", "expression", "return", "parameter"}],
    [max |-> 4, of |-> {"class", "import", "from", "wildcard", "read", "expression", "method", "repl"}],
    [max |-> 5, of |-> {"toplevel", "read", "return", "call", "methodCall", "tail", "or", "runtime"}],
    [max |-> 4, of |-> {"expression", "value", "list", "map", "or"}],
    [max |-> 3, of |-> {"expression", "assign", "if", "interpolation", "repl"}],
    [max |-> 4, of |-> {"expression", "read", "attrib", "setAttrib", "subscript", "unary"}] }
=============================================================================
