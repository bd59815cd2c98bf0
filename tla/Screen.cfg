CONSTANTS
    home = home
    list = list
    context = context
    popup = popup
    menu = menu
    item = item
    icon = icon
    Windows = {home, list, context, popup}
    Transparent = {popup}
    ContextMenus = {context}
    Brief = {popup}
    Bare = {context, popup}
    Globals = {icon}
    Parent <- MCParent
    Root = {home, list, context, popup, menu}
    Place <- MCPlace
    Width = 3
    MaxChanges = 4

SPECIFICATION Spec
INVARIANT Healed
INVARIANT DirtyIsFound
PROPERTY RefinesRepaint
PROPERTY LayoutSettles
CHECK_DEADLOCK FALSE
