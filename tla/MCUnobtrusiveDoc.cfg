SPECIFICATION Spec
CONSTANTS
    Absent = Absent
    Blank = Blank
    HasExtension = FALSE
    None = None
    Empty = Empty
    Ann = Ann
    Beth = Beth
    Ann_at = Ann_at
    Field <- MCField
    Input <- MCInput
    Default <- MCDefault
    Passing <- MCPassing
    Remote = {"name", "mail"}
    Sent <- MCSent
PROPERTY ParseEnables
SYMMETRY Names
CHECK_DEADLOCK FALSE
