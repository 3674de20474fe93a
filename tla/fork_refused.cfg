SPECIFICATION ForkSpec
CONSTANTS
  ChatIds = {x1, x2, x3}
  MaxMessage = 4
  NoRange = NoRange
INVARIANTS ChatsCanBeForked
CHECK_DEADLOCK FALSE
