SPECIFICATION Spec
CONSTANTS
  None = None
  NoName = NoName
  Names = {primary, secondary, renamed}
  Primary = primary
  Secondary = secondary
  Contents = {good, other}
PROPERTY
  GenuineArchivesPass
\* The script ends.
CHECK_DEADLOCK FALSE
